---- MODULE Spec2Model ----
(***************************************************************************)
(* pycas-sso: a CAS single-sign-on client.  The model covers the protocol  *)
(* core (src/pycas_sso/clients/core.py, errors.py, schemas.py) and the     *)
(* three transport adapters (clients/httpx.py, requests.py, aiohttp.py).   *)
(*                                                                         *)
(* One exchange is one request of an operation together with the server's  *)
(* response to it.  On that exchange the blocking variant of the operation *)
(* (login, validate, ...) and the non-blocking variant (alogin, avalidate, *)
(* ...) are called, each on a client of one of the adapters, and the       *)
(* outcome of each call (the value returned or the exception raised) is    *)
(* recorded.                                                               *)
(*                                                                         *)
(* Representation.  Python's None is the string None.  A text body is a    *)
(* sequence of tokens (words, the space, the line feed); an XML document   *)
(* is a tree of element records; comments and processing instructions are  *)
(* not modelled, and the only line terminator in a text body is "\n".      *)
(*                                                                         *)
(* Five specifications share the three variables: Spec (one exchange),     *)
(* LocalSpec (the operations that need no response), FactorySpec           *)
(* (CASClient.create), LifecycleSpec (one client from construction to      *)
(* closing) and ConcurrentSpec (non-blocking operations in flight          *)
(* together); each says what the variables hold in it.                     *)
(***************************************************************************)
EXTENDS Integers, Sequences, FiniteSets, TLC

\* ---------------------------------------------------------------- bounds

\* Longest plain-text validate body, in tokens.
MaxBody == 4
\* Most children of a cas:attributes element.
MaxAttrs == 3
\* Most children of a cas:proxies element.
MaxProxies == 2
\* Most saml:Attribute elements of a SAML assertion.
MaxSamlAttrs == 2
\* Longest mapping of query parameters handed to a URL builder.
MaxParams == 2
\* Longest query of a URL handed to ticket_from_url, in pieces.
MaxQuery == 4
\* Highest CAS protocol version asked for.
MaxVersion == 4

\* ---------------------------------------------------------------- values

None == "None"

\* All sequences over S of length at most n.
SeqUpTo(S, n) == UNION {[1..k -> S] : k \in 0..n}

\* src/pycas_sso/xml.py
XML_CAS_NS == [cas |-> "http://www.yale.edu/tp/cas"]

XML_SAML_NS ==
  [soap  |-> "http://schemas.xmlsoap.org/soap/envelope/",
   samlp |-> "urn:oasis:names:tc:SAML:1.0:protocol",
   saml  |-> "urn:oasis:names:tc:SAML:1.0:assertion"]

\* A namespace none of the parsers asks for.
OtherNs == "urn:other"

\* ---------------------------------------------------------------- XML trees

\* An element: namespace URI, local name, the attributes the parsers read
\* (None when the attribute is absent), text (None when empty) and children.
NoAttrs == [code |-> None, Value |-> None, AttributeName |-> None]

El(ns, tag, attrs, text, kids) ==
  [ns |-> ns, tag |-> tag, attrs |-> attrs, text |-> text, kids |-> kids]

\* lxml's element.find("prefix:tag", namespaces): the index of the first child
\* with that qualified name, 0 when there is none.
FindChild(el, ns, tag) ==
  LET hits == {i \in DOMAIN el.kids : el.kids[i].ns = ns /\ el.kids[i].tag = tag}
  IN IF hits = {} THEN 0 ELSE CHOOSE i \in hits : \A j \in hits : i <= j

RECURSIVE FlattenKids(_)
\* The descendants of an element in document order (what ".//" walks).
Descendants(el) == FlattenKids(el.kids)

FlattenKids(kids) ==
  IF kids = <<>> THEN <<>>
  ELSE <<Head(kids)>> \o FlattenKids(Head(kids).kids) \o FlattenKids(Tail(kids))

\* element.findall(".//prefix:tag"): all matching descendants, document order.
FindAll(el, ns, tag) ==
  SelectSeq(Descendants(el), LAMBDA d : d.ns = ns /\ d.tag = tag)

\* ---------------------------------------------------------------- outcomes

\* What a call ends in: a returned value or a raised exception.
Return(v) == [kind |-> "return", value |-> v]

Raise(exc) == [kind |-> "raise", exc |-> exc]

\* Python's built-in exceptions: a type and the constructor's arguments.
Builtin(type, args) == [type |-> type, args |-> args]

\* ---------------------------------------------------------------- errors.py

AuthCodes ==
  {"INVALID_REQUEST", "INVALID_TICKET_SPEC", "UNAUTHORIZED_SERVICE_PROXY",
   "INVALID_PROXY_CALLBACK", "INVALID_TICKET", "INVALID_SERVICE", "INTERNAL_ERROR"}

AUTHENTICATION_ERRORS ==
  [c \in AuthCodes |->
    CASE c = "INVALID_REQUEST" -> "Not all of the required request parameters were present."
      [] c = "INVALID_TICKET_SPEC" -> "Failure to meet the requirements of validation specification."
      [] c = "UNAUTHORIZED_SERVICE_PROXY" -> "The service is not authorized to perform proxy authentication."
      [] c = "INVALID_PROXY_CALLBACK" -> "The proxy callback specified is invalid. The credentials specified for proxy authentication do not meet the security requirements."
      [] c = "INVALID_TICKET" -> "The ticket provided was not valid, or the ticket did not come from an initial login and renew was set on validation."
      [] c = "INVALID_SERVICE" -> "The ticket provided was valid, but the service specified did not match the service associated with the ticket."
      [] c = "INTERNAL_ERROR" -> "An internal error occured during ticket validation."]

ProxyCodes == {"INVALID_REQUEST", "UNAUTHORIZED_SERVICE", "INTERNAL_ERROR"}

PROXY_ERRORS ==
  [c \in ProxyCodes |->
    CASE c = "INVALID_REQUEST" -> "Not all of the required request parameters were present."
      [] c = "UNAUTHORIZED_SERVICE" -> "Service is unauthorized to perform the proxy request."
      [] c = "INTERNAL_ERROR" -> "An internal error occured during ticket validation."]

\* The lookup made in the other family's table.
AuthErrmsgProxyTable(code, message) ==
  IF code \in DOMAIN PROXY_ERRORS THEN PROXY_ERRORS[code] ELSE message

\* CASServiceAuthenticationFailure.__init__: the object keeps the client and
\* hands errmsg to Exception.__init__, whose args are (errmsg,).
AuthErrmsg(code, message) ==
  IF code \in DOMAIN AUTHENTICATION_ERRORS THEN AUTHENTICATION_ERRORS[code] ELSE message

CASServiceAuthenticationFailure(client, code, message) ==
  [type |-> "CASServiceAuthenticationFailure", client |-> client,
   args |-> <<AuthErrmsg(code, message)>>]

\* A proxy failure raised with the authentication family's type.
ProxyFailureUnified(client, code, message) ==
  [type |-> "CASServiceAuthenticationFailure", client |-> client, args |-> <<message>>]

\* CASProxyFailure.__init__
ProxyErrmsg(code, message) ==
  IF code \in DOMAIN PROXY_ERRORS THEN PROXY_ERRORS[code] ELSE message

CASProxyFailure(client, code, message) ==
  [type |-> "CASProxyFailure", client |-> client,
   args |-> <<ProxyErrmsg(code, message)>>]

\* ---------------------------------------------------------------- schemas.py

CASLoginData(client, success, http_status, redirect_url) ==
  [client |-> client, success |-> success, http_status |-> http_status,
   redirect_url |-> redirect_url]

CASServiceValidateData(client, username, proxy_granting_ticket, attrs, proxies) ==
  [client |-> client, username |-> username,
   proxy_granting_ticket |-> proxy_granting_ticket, attrs |-> attrs,
   proxies |-> proxies]

CASProxyData(client, proxy_ticket) ==
  [client |-> client, proxy_ticket |-> proxy_ticket]

\* ---------------------------------------------------------------- attributes

\* A dict that maps names to lists is a sequence of entries in insertion
\* order.  attrs[name].append(text), creating the list for a new name.
DictAppend(d, name, text) ==
  IF \E i \in DOMAIN d : d[i].k = name
  THEN [i \in DOMAIN d |->
          IF d[i].k = name THEN [k |-> name, v |-> Append(d[i].v, text)] ELSE d[i]]
  ELSE Append(d, [k |-> name, v |-> <<text>>])

\* A dict value after the collapse: a scalar or a list.
Scalar(x) == [type |-> "scalar", s |-> x]

List(l) == [type |-> "list", l |-> l]

\* A collapse that keeps the first value of every key.
CollapseFirst(d) == [i \in DOMAIN d |-> [k |-> d[i].k, v |-> Scalar(d[i].v[1])]]

\* { k: v[0] if len(v) == 1 else v for k, v in attrs.items() }
Collapse(d) ==
  [i \in DOMAIN d |->
     [k |-> d[i].k, v |-> IF Len(d[i].v) = 1 THEN Scalar(d[i].v[1]) ELSE List(d[i].v)]]

RECURSIVE CasAttrs(_, _)
\* The loop over the children of cas:attributes, keyed by local name.
CasAttrs(kids, d) ==
  IF kids = <<>> THEN d
  ELSE CasAttrs(Tail(kids), DictAppend(d, Head(kids).tag, Head(kids).text))

\* The texts of the children of an element, last child first.
ChildTextsReversed(el) ==
  [i \in DOMAIN el.kids |-> el.kids[Len(el.kids) + 1 - i].text]

\* The texts of the children of an element, in document order.
ChildTexts(el) == [i \in DOMAIN el.kids |-> el.kids[i].text]

\* ---------------------------------------------------------------- strings

\* The characters of the strings that the SAML parser slices.
Spell ==
  ("samlp:Success" :> <<"s", "a", "m", "l", "p", ":", "S", "u", "c", "c", "e", "s", "s">>) @@
  ("samlp:Responder" :> <<"s", "a", "m", "l", "p", ":", "R", "e", "s", "p", "o", "n", "d", "e", "r">>) @@
  ("samlp:INVALID_TICKET" :> <<"s", "a", "m", "l", "p", ":", "I", "N", "V", "A", "L", "I", "D", "_", "T", "I", "C", "K", "E", "T">>) @@
  ("saml1p:Success" :> <<"s", "a", "m", "l", "1", "p", ":", "S", "u", "c", "c", "e", "s", "s">>) @@
  ("Success" :> <<"S", "u", "c", "c", "e", "s", "s">>) @@
  ("Responder" :> <<"R", "e", "s", "p", "o", "n", "d", "e", "r">>) @@
  ("INVALID_TICKET" :> <<"I", "N", "V", "A", "L", "I", "D", "_", "T", "I", "C", "K", "E", "T">>) @@
  (":Success" :> <<":", "S", "u", "c", "c", "e", "s", "s">>) @@
  ("s" :> <<"s">>)

\* The string with the given characters.
Str(chars) == CHOOSE s \in DOMAIN Spell : Spell[s] = chars

\* s[6:]
DropSix(s) == Str(SubSeq(Spell[s], 7, Len(Spell[s])))

\* ---------------------------------------------------------------- core.py parsers

\* _parse_service_validate_content, the branch taken when success_el is found.
ServiceValidateSuccess(self, success_el, proxy_validate) ==
  LET user_i == FindChild(success_el, XML_CAS_NS.cas, "user")
      username == IF user_i # 0 THEN success_el.kids[user_i].text ELSE ""
      attrs_i == FindChild(success_el, XML_CAS_NS.cas, "attributes")
      attrs == IF attrs_i # 0
               THEN Collapse(CasAttrs(success_el.kids[attrs_i].kids, <<>>))
               ELSE None
      pgt_i == FindChild(success_el, XML_CAS_NS.cas, "proxyGrantingTicket")
      pgt == IF pgt_i # 0 THEN success_el.kids[pgt_i].text ELSE None
      proxies_i == FindChild(success_el, XML_CAS_NS.cas, "proxies")
      proxies == IF proxy_validate /\ proxies_i # 0
                 THEN ChildTexts(success_el.kids[proxies_i])
                 ELSE None
  IN Return(CASServiceValidateData(self, username, pgt, attrs, proxies))

\* _parse_service_validate_content, the branch taken when failure_el is found.
ServiceValidateFailure(self, failure_el) ==
  Raise(CASServiceAuthenticationFailure(self, failure_el.attrs.code, failure_el.text))

\* A parser that answers a document with neither element by an empty success.
ParseServiceValidateDefaulting(self, root, proxy_validate) ==
  LET success_i == FindChild(root, XML_CAS_NS.cas, "authenticationSuccess")
      failure_i == FindChild(root, XML_CAS_NS.cas, "authenticationFailure")
  IN IF success_i # 0
     THEN ServiceValidateSuccess(self, root.kids[success_i], proxy_validate)
     ELSE IF failure_i # 0
     THEN ServiceValidateFailure(self, root.kids[failure_i])
     ELSE Return(CASServiceValidateData(self, "", None, None, None))

\* A parser that looks the failure element up before the success element.
ParseServiceValidateFailureFirst(self, root, proxy_validate) ==
  LET success_i == FindChild(root, XML_CAS_NS.cas, "authenticationSuccess")
      failure_i == FindChild(root, XML_CAS_NS.cas, "authenticationFailure")
  IN IF failure_i # 0
     THEN ServiceValidateFailure(self, root.kids[failure_i])
     ELSE IF success_i # 0
     THEN ServiceValidateSuccess(self, root.kids[success_i], proxy_validate)
     ELSE Raise(Builtin("ValueError", <<"Incorrect XML content for serviceValidate">>))

\* CASClientBase._parse_service_validate_content
_parse_service_validate_content(self, root, proxy_validate) ==
  LET success_i == FindChild(root, XML_CAS_NS.cas, "authenticationSuccess")
      failure_i == FindChild(root, XML_CAS_NS.cas, "authenticationFailure")
  IN IF success_i # 0
     THEN ServiceValidateSuccess(self, root.kids[success_i], proxy_validate)
     ELSE IF failure_i # 0
     THEN ServiceValidateFailure(self, root.kids[failure_i])
     ELSE Raise(Builtin("ValueError", <<"Incorrect XML content for serviceValidate">>))

\* A proxy parser that answers a proxySuccess without a ticket with a result
\* whose ticket is absent.
ParseProxyDefaulting(self, root) ==
  LET success_i == FindChild(root, XML_CAS_NS.cas, "proxySuccess")
      proxy_i == IF success_i # 0
                 THEN FindChild(root.kids[success_i], XML_CAS_NS.cas, "proxyTicket")
                 ELSE 0
      failure_i == FindChild(root, XML_CAS_NS.cas, "proxyFailure")
  IN IF success_i # 0
     THEN Return(CASProxyData(self, IF proxy_i # 0
                                    THEN root.kids[success_i].kids[proxy_i].text
                                    ELSE None))
     ELSE IF failure_i # 0
     THEN Raise(CASProxyFailure(self, root.kids[failure_i].attrs.code, root.kids[failure_i].text))
     ELSE Raise(Builtin("ValueError", <<"Incorrect XML content for proxy">>))

\* CASClientBase._parse_proxy_content
_parse_proxy_content(self, root) ==
  LET success_i == FindChild(root, XML_CAS_NS.cas, "proxySuccess")
      proxy_i == IF success_i # 0
                 THEN FindChild(root.kids[success_i], XML_CAS_NS.cas, "proxyTicket")
                 ELSE 0
      failure_i == FindChild(root, XML_CAS_NS.cas, "proxyFailure")
  IN IF proxy_i # 0
     THEN Return(CASProxyData(self, root.kids[success_i].kids[proxy_i].text))
     ELSE IF failure_i # 0
     THEN LET failure_el == root.kids[failure_i]
          IN Raise(CASProxyFailure(self, failure_el.attrs.code, failure_el.text))
     ELSE Raise(Builtin("ValueError", <<"Incorrect XML content for proxy">>))

RECURSIVE SamlValues(_, _, _)
\* The inner loop over the children of one saml:Attribute: every child whose
\* local name is AttributeValue, whatever its namespace.
SamlValues(kids, name, d) ==
  IF kids = <<>> THEN d
  ELSE SamlValues(Tail(kids), name,
         IF Head(kids).tag = "AttributeValue"
         THEN DictAppend(d, name, Head(kids).text) ELSE d)

RECURSIVE SamlAttrs(_, _)
\* The outer loop over root.findall(".//saml:Attribute").
SamlAttrs(attrs_all, d) ==
  IF attrs_all = <<>> THEN d
  ELSE SamlAttrs(Tail(attrs_all),
         SamlValues(Head(attrs_all).kids, Head(attrs_all).attrs.AttributeName, d))

\* CASClientBase._parse_saml_validate_content
_parse_saml_validate_content(self, root) ==
  LET status_all == FindAll(root, XML_SAML_NS.samlp, "StatusCode")
  IN IF status_all # <<>>
     THEN LET status_el == Head(status_all)
          IN IF status_el.attrs.Value = None
             THEN \* None[6:]
                  Raise(Builtin("TypeError", <<"'NoneType' object is not subscriptable">>))
             ELSE LET status_code == DropSix(status_el.attrs.Value)
                  IN IF status_code = "Success"
                     THEN LET user_all == FindAll(root, XML_SAML_NS.saml, "NameIdentifier")
                              username == IF user_all # <<>> THEN Head(user_all).text ELSE ""
                              attrs_all == FindAll(root, XML_SAML_NS.saml, "Attribute")
                              attrs == Collapse(SamlAttrs(attrs_all, <<>>))
                          IN Return(CASServiceValidateData(self, username, None, attrs, None))
                     ELSE LET message_i == FindChild(status_el, XML_SAML_NS.samlp, "StatusMessage")
                              message == IF message_i # 0
                                         THEN status_el.kids[message_i].text ELSE ""
                          IN Raise(CASServiceAuthenticationFailure(self, status_code, message))
     ELSE Raise(Builtin("ValueError", <<"Incorrect XML content for samlValidate">>))

\* ---------------------------------------------------------------- text bodies

\* Python's str.strip() / bytes.strip() removes leading and trailing whitespace.
IsSpace(t) == t \in {" ", "\n"}

RECURSIVE LStrip(_)
LStrip(s) == IF s # <<>> /\ IsSpace(Head(s)) THEN LStrip(Tail(s)) ELSE s

RECURSIVE RStrip(_)
RStrip(s) ==
  IF s # <<>> /\ IsSpace(s[Len(s)]) THEN RStrip(SubSeq(s, 1, Len(s) - 1)) ELSE s

Strip(s) == RStrip(LStrip(s))

\* The index of the first line feed of a body, 0 when it has none.
FirstLf(b) ==
  LET at == {i \in DOMAIN b : b[i] = "\n"}
  IN IF at = {} THEN 0 ELSE CHOOSE i \in at : \A j \in at : i <= j

RECURSIVE SplitLines(_)
\* The lines that httpx's iter_lines and requests' iter_lines yield: the body
\* split at line feeds, the terminators dropped, no line after a final one.
SplitLines(b) ==
  IF b = <<>> THEN <<>>
  ELSE IF FirstLf(b) = 0 THEN <<b>>
  ELSE <<SubSeq(b, 1, FirstLf(b) - 1)>> \o SplitLines(SubSeq(b, FirstLf(b) + 1, Len(b)))

\* aiohttp's StreamReader.readline(): the bytes up to and including the first
\* line feed, everything left when there is none, nothing at the end.
ReadLine(b) == IF FirstLf(b) = 0 THEN b ELSE SubSeq(b, 1, FirstLf(b))

AfterLine(b) == IF FirstLf(b) = 0 THEN <<>> ELSE SubSeq(b, FirstLf(b) + 1, Len(b))

ValidateFailed(self) ==
  Raise(CASServiceAuthenticationFailure(self, "VALIDATE_FAILED", "Ticket validation failed."))

\* ---------------------------------------------------------------- adapters

\* fetch_validate without the try/except around the second next(it).
HttpxFetchValidateNoExcept(self, body) ==
  LET it == SplitLines(body)
  IN IF it = <<>> \/ (it[1] = <<"yes">> /\ Len(it) < 2)
     THEN Raise(Builtin("StopIteration", <<>>))
     ELSE IF it[1] = <<"yes">> THEN Return(Strip(it[2]))
     ELSE ValidateFailed(self)

\* CASClient_Httpx.fetch_validate: next(it) on an exhausted iterator raises
\* StopIteration; the bare except around the second next(it) swallows it.
CASClient_Httpx_fetch_validate(self, body) ==
  LET it == SplitLines(body)
  IN IF it = <<>> THEN Raise(Builtin("StopIteration", <<>>))
     ELSE IF it[1] = <<"yes">>
     THEN Return(IF Len(it) >= 2 THEN Strip(it[2]) ELSE <<>>)
     ELSE ValidateFailed(self)

\* CASClient_Httpx.afetch_validate: anext(it) raises StopAsyncIteration.
CASClient_Httpx_afetch_validate(self, body) ==
  LET it == SplitLines(body)
  IN IF it = <<>> THEN Raise(Builtin("StopAsyncIteration", <<>>))
     ELSE IF it[1] = <<"yes">>
     THEN Return(IF Len(it) >= 2 THEN Strip(it[2]) ELSE <<>>)
     ELSE ValidateFailed(self)

\* CASClient_Requests.fetch_validate
CASClient_Requests_fetch_validate(self, body) ==
  LET it == SplitLines(body)
  IN IF it = <<>> THEN Raise(Builtin("StopIteration", <<>>))
     ELSE IF it[1] = <<"yes">>
     THEN Return(IF Len(it) >= 2 THEN Strip(it[2]) ELSE <<>>)
     ELSE ValidateFailed(self)

\* CASClient_AIOHttp.afetch_validate: both lines are read with readline() and
\* stripped, the status line too.
CASClient_AIOHttp_afetch_validate(self, body) ==
  LET status == Strip(ReadLine(body))
  IN IF status = <<"yes">>
     THEN Return(Strip(ReadLine(AfterLine(body))))
     ELSE ValidateFailed(self)

\* fetch_validate / afetch_validate of the client's class.
fetch_validate(self, body) ==
  CASE self.lib = "httpx" /\ ~self.is_async -> CASClient_Httpx_fetch_validate(self, body)
    [] self.lib = "httpx" /\ self.is_async -> CASClient_Httpx_afetch_validate(self, body)
    [] self.lib = "requests" -> CASClient_Requests_fetch_validate(self, body)
    [] self.lib = "aiohttp" -> CASClient_AIOHttp_afetch_validate(self, body)

\* CASClientBase.validate / avalidate
validate(self, response) ==
  LET fetched == fetch_validate(self, response.body.text)
  IN IF fetched.kind = "raise" THEN fetched
     ELSE Return(CASServiceValidateData(self, fetched.value, None, None, None))

\* requests.Response.is_redirect
RequestsRedirectStati == {301, 302, 303, 307, 308}

RequestsIsRedirect(response) ==
  response.location # None /\ response.status \in RequestsRedirectStati

\* httpx.Response.is_redirect: any 3xx status.
HttpxIsRedirect(response) == response.status \in 300..399

\* rq.status_code in [200, 201, 302]
LoginSuccess(status) == status \in {200, 201, 302}

\* CASClient_Httpx.login / alogin: rq.headers['location'] if rq.is_redirect else ""
CASClient_Httpx_login(self, response) ==
  IF HttpxIsRedirect(response) /\ response.location = None
  THEN Raise(Builtin("KeyError", <<"location">>))
  ELSE Return(CASLoginData(self, LoginSuccess(response.status), response.status,
                IF HttpxIsRedirect(response) THEN response.location ELSE ""))

\* CASClient_Requests.login
CASClient_Requests_login(self, response) ==
  Return(CASLoginData(self, LoginSuccess(response.status), response.status,
           IF RequestsIsRedirect(response) THEN response.location ELSE ""))

\* CASClient_AIOHttp.alogin: rq.headers['location'] if 'location' in rq.headers else ""
CASClient_AIOHttp_alogin(self, response) ==
  Return(CASLoginData(self, LoginSuccess(response.status), response.status,
           IF response.location # None THEN response.location ELSE ""))

login(self, response) ==
  CASE self.lib = "httpx" -> CASClient_Httpx_login(self, response)
    [] self.lib = "requests" -> CASClient_Requests_login(self, response)
    [] self.lib = "aiohttp" -> CASClient_AIOHttp_alogin(self, response)

\* logout / alogout of every adapter: rq.status_code in [200, 201]
logout(self, response) == Return(response.status \in {200, 201})

\* CASClientBase.service_validate / aservice_validate: the adapters' fetch
\* returns the response body whatever the status.
service_validate(self, response) ==
  _parse_service_validate_content(self, response.body.xml, FALSE)

\* CASClientBase.proxy_validate / aproxy_validate
proxy_validate(self, response) ==
  _parse_service_validate_content(self, response.body.xml, TRUE)

\* CASClientBase.proxy / aproxy
proxy(self, response) == _parse_proxy_content(self, response.body.xml)

\* CASClientBase.saml_validate / asaml_validate
saml_validate(self, response) == _parse_saml_validate_content(self, response.body.xml)

\* ---------------------------------------------------------------- responses

\* What the core reads of a response: the status, the Location header (None
\* when absent) and the body.
Response(status, location, body) ==
  [status |-> status, location |-> location, body |-> body]

\* A body is plain text (a token sequence), an XML document (its root
\* element) or not read at all.
Text(tokens) == [text |-> tokens]

Xml(root) == [xml |-> root]

Unread == [unread |-> TRUE]

\* Plain-text validate bodies.
TextTokens == {"yes", "no", "jdoe", " ", "\n"}

TextBodies == SeqUpTo(TextTokens, MaxBody)

Cas(tag, text, kids) == El(XML_CAS_NS.cas, tag, NoAttrs, text, kids)

CasCoded(tag, code, text) ==
  El(XML_CAS_NS.cas, tag, [NoAttrs EXCEPT !.code = code], text, <<>>)

\* Children of cas:attributes; lxml's QName(child).localname ignores the namespace.
AttrLeaves ==
  {Cas("cn", "jdoe", <<>>), Cas("memberOf", "person", <<>>), Cas("memberOf", "user", <<>>),
   El(OtherNs, "cn", NoAttrs, None, <<>>)}

UserParts == {<<>>, <<Cas("user", "jdoe", <<>>)>>, <<Cas("user", None, <<>>)>>}

AttrParts ==
  {<<>>} \cup {<<Cas("attributes", None, k)>> : k \in SeqUpTo(AttrLeaves, MaxAttrs)}

PgtParts == {<<>>, <<Cas("proxyGrantingTicket", "PGTIOU-1", <<>>)>>}

ProxyLeaves ==
  {Cas("proxy", "https://proxy1.example.com/", <<>>),
   Cas("proxy", "https://proxy2.example.com/", <<>>)}

ProxiesParts ==
  {<<>>} \cup {<<Cas("proxies", None, k)>> : k \in SeqUpTo(ProxyLeaves, MaxProxies)}

SimpleSuccess == Cas("authenticationSuccess", None, <<Cas("user", "jdoe", <<>>)>>)

\* cas:authenticationSuccess elements: the user, attributes and ticket vary,
\* and, with a fixed user, the ticket and the proxies.
SuccessEls ==
  {Cas("authenticationSuccess", None, u \o a \o g) :
     u \in UserParts, a \in AttrParts, g \in PgtParts}
  \cup
  {Cas("authenticationSuccess", None, <<Cas("user", "jdoe", <<>>)>> \o g \o x) :
     g \in PgtParts, x \in ProxiesParts}

\* Codes a server may report: known to one family, to both, to neither, none.
FailCodes == {None, "INVALID_TICKET", "INVALID_REQUEST", "UNAUTHORIZED_SERVICE", "FOO"}

FailTexts == {None, "Ticket not recognized"}

FailureEls == {CasCoded("authenticationFailure", c, t) : c \in FailCodes, t \in FailTexts}

ProxyFailureEls == {CasCoded("proxyFailure", c, t) : c \in FailCodes, t \in FailTexts}

ProxySuccessEls ==
  {Cas("proxySuccess", None, <<>>),
   Cas("proxySuccess", None, <<Cas("proxyTicket", "PT-1", <<>>)>>),
   Cas("proxySuccess", None, <<El(OtherNs, "proxyTicket", NoAttrs, "PT-1", <<>>)>>)}

\* The right local name in a namespace the parsers do not ask for.
ForeignEls == {El(OtherNs, "authenticationSuccess", NoAttrs, None, <<>>)}

TopEls == {SimpleSuccess} \cup FailureEls \cup ProxySuccessEls \cup ProxyFailureEls \cup ForeignEls

\* Elements that are paired under one root.
PairEls ==
  {SimpleSuccess, CasCoded("authenticationFailure", "FOO", "Ticket not recognized"),
   CasCoded("authenticationFailure", "INVALID_TICKET", None),
   Cas("proxySuccess", None, <<Cas("proxyTicket", "PT-1", <<>>)>>),
   Cas("proxySuccess", None, <<>>),
   CasCoded("proxyFailure", "UNAUTHORIZED_SERVICE", "Ticket not recognized")}

ServiceResponse(kids) == Cas("serviceResponse", None, kids)

\* CAS XML documents (cas:serviceResponse roots).
CasDocs ==
  {ServiceResponse(<<>>)}
  \cup {ServiceResponse(<<e>>) : e \in TopEls \cup SuccessEls}
  \cup {ServiceResponse(<<e, f>>) : e \in PairEls, f \in PairEls}

Samlp(tag, text, kids) == El(XML_SAML_NS.samlp, tag, NoAttrs, text, kids)

Saml(tag, text, kids) == El(XML_SAML_NS.saml, tag, NoAttrs, text, kids)

StatusCode(ns, value, kids) ==
  El(ns, "StatusCode", [NoAttrs EXCEPT !.Value = value], None, kids)

StatusMessage(text) == Samlp("StatusMessage", text, <<>>)

\* Value attributes: the samlp: prefix, a longer one, none at all, absent.
StatusValues ==
  {"samlp:Success", "samlp:Responder", "samlp:INVALID_TICKET", "saml1p:Success",
   "Success", None}

\* The children of a Status element: a StatusCode (with or without a
\* StatusMessage child of its own), alone or followed by a StatusMessage.
StatusKids ==
  {<<>>, <<StatusMessage("outer")>>}
  \cup {<<StatusCode(XML_SAML_NS.samlp, v, k)>> \o m :
          v \in StatusValues, k \in {<<>>, <<StatusMessage("inner")>>},
          m \in {<<>>, <<StatusMessage("outer")>>}}
  \cup {<<StatusCode(OtherNs, "samlp:Success", <<>>)>>,
        <<StatusCode(XML_SAML_NS.samlp, "samlp:Responder",
            <<StatusCode(XML_SAML_NS.samlp, "samlp:Success", <<>>)>>)>>}

Attribute(name, kids) ==
  El(XML_SAML_NS.saml, "Attribute", [NoAttrs EXCEPT !.AttributeName = name], None, kids)

AttributeValue(text) == Saml("AttributeValue", text, <<>>)

AttributeEls ==
  {Attribute("cn", <<AttributeValue("jdoe")>>),
   Attribute("memberOf", <<AttributeValue("person")>>),
   Attribute("memberOf", <<AttributeValue("user")>>),
   Attribute("memberOf", <<AttributeValue("person"), AttributeValue("user")>>),
   Attribute("cn", <<>>),
   Attribute(None, <<Saml("Other", "x", <<>>), AttributeValue(None)>>)}

NameIdParts ==
  {<<>>, <<Saml("NameIdentifier", "jdoe", <<>>)>>, <<Saml("NameIdentifier", None, <<>>)>>}

Assertions ==
  {Saml("Assertion", None, <<Saml("AttributeStatement", None, n \o a)>>) :
     n \in NameIdParts, a \in SeqUpTo(AttributeEls, MaxSamlAttrs)}

SimpleAssertion ==
  Saml("Assertion", None,
    <<Saml("AttributeStatement", None,
        <<Saml("NameIdentifier", "jdoe", <<>>), Attribute("cn", <<AttributeValue("jdoe")>>)>>)>>)

Envelope(kids) ==
  El(XML_SAML_NS.soap, "Envelope", NoAttrs, None,
    <<El(XML_SAML_NS.soap, "Body", NoAttrs, None, <<Samlp("Response", None, kids)>>)>>)

\* SAML 1.1 response documents: the status varies over a fixed assertion, and
\* the assertion over a Success status.
SamlDocs ==
  {Envelope(<<>>), Envelope(<<SimpleAssertion>>)}
  \cup {Envelope(<<Samlp("Status", None, k), SimpleAssertion>>) : k \in StatusKids}
  \cup {Envelope(<<Samlp("Status", None, <<StatusCode(XML_SAML_NS.samlp, "samlp:Success", <<>>)>>), a>>) :
          a \in Assertions}

LoginStati == {200, 201, 302, 304, 401}

Locations == {None, "https://service.example.com/?ticket=ST-1"}

\* An exchange: the operation requested and the server's response to it.
Exchanges ==
  {[op |-> "login", response |-> Response(st, l, Unread)] : st \in LoginStati, l \in Locations}
  \cup {[op |-> "logout", response |-> Response(st, None, Unread)] : st \in LoginStati}
  \cup {[op |-> "validate", response |-> Response(200, None, Text(b))] : b \in TextBodies}
  \cup {[op |-> o, response |-> Response(200, None, Xml(d))] :
          o \in {"service_validate", "proxy_validate", "proxy"}, d \in CasDocs}
  \cup {[op |-> "saml_validate", response |-> Response(200, None, Xml(d))] : d \in SamlDocs}

\* ---------------------------------------------------------------- clients

\* CASClientBase.__init__; the configuration is that of the tests' fixtures.
Client(lib, is_async) ==
  [lib |-> lib, is_async |-> is_async, provider |-> "https://cas.example.com/cas",
   service_url |-> "https://service.example.com/",
   callback_url |-> "https://service.example.com/login"]

\* The adapters that implement the blocking and the non-blocking operations.
SyncLibs == {"httpx", "requests"}

AsyncLibs == {"httpx", "aiohttp"}

\* ---------------------------------------------------------------- state

VARIABLES
  exchange,    \* the operation requested and the server's response
  sync_call,   \* the blocking call made on the exchange: adapter and outcome
  async_call   \* the non-blocking call made on the exchange

vars == <<exchange, sync_call, async_call>>

NoCall == [lib |-> "none", out |-> [kind |-> "none"]]

Init ==
  /\ exchange \in Exchanges
  /\ sync_call = NoCall
  /\ async_call = NoCall

\* The operation named op, on the client self.
Operate(op, self, response) ==
  CASE op = "login" -> login(self, response)
    [] op = "logout" -> logout(self, response)
    [] op = "validate" -> validate(self, response)
    [] op = "service_validate" -> service_validate(self, response)
    [] op = "proxy_validate" -> proxy_validate(self, response)
    [] op = "proxy" -> proxy(self, response)
    [] op = "saml_validate" -> saml_validate(self, response)

\* The call of the exchange's operation on a fresh client of the adapter.
Called(lib, is_async) ==
  [lib |-> lib, out |-> Operate(exchange.op, Client(lib, is_async), exchange.response)]

\* login() on a client of a blocking adapter.
Login ==
  /\ exchange.op = "login"
  /\ sync_call = NoCall
  /\ \E lib \in SyncLibs : sync_call' = Called(lib, FALSE)
  /\ UNCHANGED <<exchange, async_call>>

\* alogin() on a client of a non-blocking adapter.
ALogin ==
  /\ exchange.op = "login"
  /\ async_call = NoCall
  /\ \E lib \in AsyncLibs : async_call' = Called(lib, TRUE)
  /\ UNCHANGED <<exchange, sync_call>>

\* logout() on a client of a blocking adapter.
Logout ==
  /\ exchange.op = "logout"
  /\ sync_call = NoCall
  /\ \E lib \in SyncLibs : sync_call' = Called(lib, FALSE)
  /\ UNCHANGED <<exchange, async_call>>

\* alogout() on a client of a non-blocking adapter.
ALogout ==
  /\ exchange.op = "logout"
  /\ async_call = NoCall
  /\ \E lib \in AsyncLibs : async_call' = Called(lib, TRUE)
  /\ UNCHANGED <<exchange, sync_call>>

\* validate() on a client of a blocking adapter.
Validate ==
  /\ exchange.op = "validate"
  /\ sync_call = NoCall
  /\ \E lib \in SyncLibs : sync_call' = Called(lib, FALSE)
  /\ UNCHANGED <<exchange, async_call>>

\* avalidate() on a client of a non-blocking adapter.
AValidate ==
  /\ exchange.op = "validate"
  /\ async_call = NoCall
  /\ \E lib \in AsyncLibs : async_call' = Called(lib, TRUE)
  /\ UNCHANGED <<exchange, sync_call>>

\* service_validate() on a client of a blocking adapter.
ServiceValidate ==
  /\ exchange.op = "service_validate"
  /\ sync_call = NoCall
  /\ \E lib \in SyncLibs : sync_call' = Called(lib, FALSE)
  /\ UNCHANGED <<exchange, async_call>>

\* aservice_validate() on a client of a non-blocking adapter.
AServiceValidate ==
  /\ exchange.op = "service_validate"
  /\ async_call = NoCall
  /\ \E lib \in AsyncLibs : async_call' = Called(lib, TRUE)
  /\ UNCHANGED <<exchange, sync_call>>

\* proxy_validate() on a client of a blocking adapter.
ProxyValidate ==
  /\ exchange.op = "proxy_validate"
  /\ sync_call = NoCall
  /\ \E lib \in SyncLibs : sync_call' = Called(lib, FALSE)
  /\ UNCHANGED <<exchange, async_call>>

\* aproxy_validate() on a client of a non-blocking adapter.
AProxyValidate ==
  /\ exchange.op = "proxy_validate"
  /\ async_call = NoCall
  /\ \E lib \in AsyncLibs : async_call' = Called(lib, TRUE)
  /\ UNCHANGED <<exchange, sync_call>>

\* proxy() on a client of a blocking adapter.
Proxy ==
  /\ exchange.op = "proxy"
  /\ sync_call = NoCall
  /\ \E lib \in SyncLibs : sync_call' = Called(lib, FALSE)
  /\ UNCHANGED <<exchange, async_call>>

\* aproxy() on a client of a non-blocking adapter.
AProxy ==
  /\ exchange.op = "proxy"
  /\ async_call = NoCall
  /\ \E lib \in AsyncLibs : async_call' = Called(lib, TRUE)
  /\ UNCHANGED <<exchange, sync_call>>

\* saml_validate() on a client of a blocking adapter.
SamlValidate ==
  /\ exchange.op = "saml_validate"
  /\ sync_call = NoCall
  /\ \E lib \in SyncLibs : sync_call' = Called(lib, FALSE)
  /\ UNCHANGED <<exchange, async_call>>

\* asaml_validate() on a client of a non-blocking adapter.
ASamlValidate ==
  /\ exchange.op = "saml_validate"
  /\ async_call = NoCall
  /\ \E lib \in AsyncLibs : async_call' = Called(lib, TRUE)
  /\ UNCHANGED <<exchange, sync_call>>

Next ==
  \/ Login \/ ALogin
  \/ Logout \/ ALogout
  \/ Validate \/ AValidate
  \/ ServiceValidate \/ AServiceValidate
  \/ ProxyValidate \/ AProxyValidate
  \/ Proxy \/ AProxy
  \/ SamlValidate \/ ASamlValidate

Spec == Init /\ [][Next]_vars

\* ---------------------------------------------------------------- properties

\* The calls made so far on the exchange.
Made == {c \in {sync_call, async_call} : c.lib # "none"}

\* The root of the exchange's XML document.
Root == exchange.response.body.xml

HasChild(el, ns, tag) ==
  \E i \in DOMAIN el.kids : el.kids[i].ns = ns /\ el.kids[i].tag = tag

\* The first child of el with the qualified name (one exists).
FirstChild(el, ns, tag) ==
  el.kids[CHOOSE i \in DOMAIN el.kids :
            /\ el.kids[i].ns = ns /\ el.kids[i].tag = tag
            /\ \A j \in 1..(i - 1) : ~(el.kids[j].ns = ns /\ el.kids[j].tag = tag)]

HasSuccess == HasChild(Root, XML_CAS_NS.cas, "authenticationSuccess")

HasFailure == HasChild(Root, XML_CAS_NS.cas, "authenticationFailure")

CasParse == exchange.op \in {"service_validate", "proxy_validate"}

IsResult(out) == out.kind = "return"

IsAuthFailure(out) ==
  out.kind = "raise" /\ out.exc.type = "CASServiceAuthenticationFailure"

IsProxyFailure(out) == out.kind = "raise" /\ out.exc.type = "CASProxyFailure"

IsMalformed(out) == out.kind = "raise" /\ out.exc.type = "ValueError"

\* C1: the serviceValidate/proxyValidate parser returns a result only if the
\* root has a cas:authenticationSuccess child, raises an authentication
\* failure only if that child is absent and a cas:authenticationFailure child
\* is present, and fails with ValueError when neither child is present.
C1_ResultFailureOrMalformed ==
  CasParse =>
    \A c \in Made :
      /\ IsResult(c.out) => HasSuccess
      /\ IsAuthFailure(c.out) => ~HasSuccess /\ HasFailure
      /\ (~HasSuccess /\ ~HasFailure) => IsMalformed(c.out)

\* A parse of a document with neither element has ended in ValueError.
C1_Witness ==
  /\ CasParse /\ ~HasSuccess /\ ~HasFailure
  /\ Root.kids # <<>>
  /\ \E c \in Made : IsMalformed(c.out)

\* The code an authentication failure of the exchange is raised for.
FirstStatusCode == Head(FindAll(Root, XML_SAML_NS.samlp, "StatusCode"))

RaisedCode ==
  CASE exchange.op = "validate" -> "VALIDATE_FAILED"
    [] CasParse -> FirstChild(Root, XML_CAS_NS.cas, "authenticationFailure").attrs.code
    [] exchange.op = "saml_validate" -> DropSix(FirstStatusCode.attrs.Value)

\* What a caller can read from a caught exception: its args.
Carried(exc) == {exc.args[i] : i \in DOMAIN exc.args}

\* C2: every authentication failure raised by validate, service_validate,
\* proxy_validate or saml_validate carries the protocol code it was raised
\* for, so that the caller can read the code back from the error.
C2_FailureCarriesCode ==
  \A c \in Made : IsAuthFailure(c.out) => RaisedCode \in Carried(c.out.exc)

\* C3: the message of the authentication failure built from (c, m) is the
\* sentence AUTHENTICATION_ERRORS[c] when c is one of the seven known codes,
\* whatever m is, and is m unchanged for every other code (VALIDATE_FAILED
\* and the proxy-only codes included).
C3_MessageFixedOrVerbatim ==
  \A c \in Made :
    IsAuthFailure(c.out) =>
      IF RaisedCode \in AuthCodes
      THEN c.out.exc.args = <<AUTHENTICATION_ERRORS[RaisedCode]>>
      ELSE CASE exchange.op = "validate" ->
                  c.out.exc.args = <<"Ticket validation failed.">>
             [] CasParse ->
                  c.out.exc.args =
                    <<FirstChild(Root, XML_CAS_NS.cas, "authenticationFailure").text>>
             [] exchange.op = "saml_validate" ->
                  c.out.exc.args \in {<<"">>, <<"inner">>, <<"outer">>}

\* A known code with a server message has raised the fixed sentence, and the
\* message is not the server's.
C3_Witness ==
  /\ CasParse /\ ~HasSuccess /\ HasFailure
  /\ RaisedCode = "INVALID_TICKET"
  /\ \E c \in Made :
       /\ IsAuthFailure(c.out)
       /\ c.out.exc.args = <<AUTHENTICATION_ERRORS["INVALID_TICKET"]>>

\* C4: a server-reported failure of proxy is always raised as CASProxyFailure
\* (message looked up in PROXY_ERRORS, verbatim otherwise) and never as an
\* authentication failure; a server-reported failure of the validations is
\* always an authentication failure and never a proxy failure.
C4_FamiliesNeverMixed ==
  \A c \in Made :
    /\ exchange.op = "proxy" =>
         /\ ~IsAuthFailure(c.out)
         /\ IsProxyFailure(c.out) =>
              /\ HasChild(Root, XML_CAS_NS.cas, "proxyFailure")
              /\ LET f == FirstChild(Root, XML_CAS_NS.cas, "proxyFailure")
                 IN c.out.exc.args =
                      <<IF f.attrs.code \in ProxyCodes
                        THEN PROXY_ERRORS[f.attrs.code] ELSE f.text>>
         /\ (/\ HasChild(Root, XML_CAS_NS.cas, "proxyFailure")
             /\ ~HasChild(Root, XML_CAS_NS.cas, "proxySuccess")) => IsProxyFailure(c.out)
    /\ exchange.op # "proxy" => ~IsProxyFailure(c.out)
    /\ (CasParse /\ HasFailure /\ ~HasSuccess) => IsAuthFailure(c.out)

\* proxy() has raised a proxy failure for a code only the proxy family knows.
C4_Witness ==
  /\ exchange.op = "proxy"
  /\ HasChild(Root, XML_CAS_NS.cas, "proxyFailure")
  /\ \E c \in Made :
       /\ IsProxyFailure(c.out)
       /\ c.out.exc.args = <<PROXY_ERRORS["UNAUTHORIZED_SERVICE"]>>

\* The (key, text) pairs of a CAS success element's attributes, document order.
CasPairs(success_el) ==
  LET a == FirstChild(success_el, XML_CAS_NS.cas, "attributes")
  IN [i \in DOMAIN a.kids |-> [k |-> a.kids[i].tag, t |-> a.kids[i].text]]

RECURSIVE SamlPairs(_)
\* The (AttributeName, text) pairs of the AttributeValue children of a
\* sequence of saml:Attribute elements, document order.
SamlPairs(attribute_els) ==
  IF attribute_els = <<>> THEN <<>>
  ELSE LET a == Head(attribute_els)
           values == SelectSeq(a.kids, LAMBDA e : e.tag = "AttributeValue")
       IN [i \in DOMAIN values |-> [k |-> a.attrs.AttributeName, t |-> values[i].text]]
          \o SamlPairs(Tail(attribute_els))

\* The texts paired with key k, in order.
ValuesOf(pairs, k) ==
  LET sel == SelectSeq(pairs, LAMBDA q : q.k = k)
  IN [i \in DOMAIN sel |-> sel[i].t]

FirstAt(pairs, k) ==
  CHOOSE i \in DOMAIN pairs :
    pairs[i].k = k /\ \A j \in 1..(i - 1) : pairs[j].k # k

\* attrs is the collapse of pairs: one entry per key in order of first
\* occurrence, a scalar for one value, the list of all values for more.
IsCollapseOf(attrs, pairs) ==
  /\ {attrs[i].k : i \in DOMAIN attrs} = {pairs[i].k : i \in DOMAIN pairs}
  /\ \A i, j \in DOMAIN attrs :
       i < j => /\ attrs[i].k # attrs[j].k
                /\ FirstAt(pairs, attrs[i].k) < FirstAt(pairs, attrs[j].k)
  /\ \A i \in DOMAIN attrs :
       LET vals == ValuesOf(pairs, attrs[i].k)
       IN /\ attrs[i].v.type = "scalar" <=> Len(vals) = 1
          /\ attrs[i].v.type = "list" <=> Len(vals) >= 2
          /\ attrs[i].v.type = "scalar" => attrs[i].v.s = vals[1]
          /\ attrs[i].v.type = "list" => attrs[i].v.l = vals /\ Len(attrs[i].v.l) >= 2

\* C5: in every successful serviceValidate/proxyValidate/samlValidate result
\* each attribute key maps to a scalar exactly when it has one value in the
\* document and to the list of all its values, in document order, exactly
\* when it has two or more; no list has length 0 or 1; keys are in order of
\* first occurrence.
C5_AttributesCollapse ==
  \A c \in Made :
    IsResult(c.out) =>
      /\ CasParse =>
           LET s == FirstChild(Root, XML_CAS_NS.cas, "authenticationSuccess")
           IN HasChild(s, XML_CAS_NS.cas, "attributes") =>
                IsCollapseOf(c.out.value.attrs, CasPairs(s))
      /\ exchange.op = "saml_validate" =>
           IsCollapseOf(c.out.value.attrs,
                        SamlPairs(FindAll(Root, XML_SAML_NS.saml, "Attribute")))

\* The fixtures' result: cn single-valued, memberOf with two values.
C5_Witness ==
  /\ CasParse
  /\ \E c \in Made :
       /\ IsResult(c.out)
       /\ HasChild(FirstChild(Root, XML_CAS_NS.cas, "authenticationSuccess"),
                   XML_CAS_NS.cas, "attributes")
       /\ c.out.value.attrs =
            <<[k |-> "cn", v |-> Scalar("jdoe")],
              [k |-> "memberOf", v |-> List(<<"person", "user">>)]>>

\* The tokens of a body before its first line feed, and those after it.
LfAt(b) ==
  IF \E i \in DOMAIN b : b[i] = "\n"
  THEN CHOOSE i \in DOMAIN b : b[i] = "\n" /\ \A j \in 1..(i - 1) : b[j] # "\n"
  ELSE Len(b) + 1

UpToLf(b) == SubSeq(b, 1, LfAt(b) - 1)

AfterLf(b) == SubSeq(b, LfAt(b) + 1, Len(b))

\* A line without its leading and trailing whitespace.
Trimmed(line) ==
  LET solid == {i \in DOMAIN line : line[i] \notin {" ", "\n"}}
  IN IF solid = {} THEN <<>>
     ELSE SubSeq(line, CHOOSE i \in solid : \A j \in solid : i <= j,
                       CHOOSE i \in solid : \A j \in solid : j <= i)

TextBody == exchange.response.body.text

\* The body has a first line and it is exactly "yes".
FirstLineIsYes == TextBody # <<>> /\ UpToLf(TextBody) = <<"yes">>

\* C6: whenever the first line of the plain-text response is anything other
\* than exactly "yes" (an empty body included), validate/avalidate fails with
\* an authentication failure of code VALIDATE_FAILED, in every adapter, and
\* never with another error or with a result.
C6_NotYesFailsValidateFailed ==
  (exchange.op = "validate" /\ ~FirstLineIsYes) =>
    \A c \in Made :
      /\ IsAuthFailure(c.out)
      /\ c.out.exc.args = <<"Ticket validation failed.">>

\* C7: whenever the first line is exactly "yes", validate/avalidate returns a
\* result whose username is the second line trimmed, the empty string when
\* that line is empty or absent, and whose proxy-granting ticket, attributes
\* and proxies are absent; it never fails.
C7_YesReturnsTrimmedUsername ==
  (exchange.op = "validate" /\ FirstLineIsYes) =>
    \A c \in Made :
      /\ IsResult(c.out)
      /\ c.out.value.username = Trimmed(UpToLf(AfterLf(TextBody)))
      /\ c.out.value.proxy_granting_ticket = None
      /\ c.out.value.attrs = None
      /\ c.out.value.proxies = None

\* A username with whitespace around it has been returned trimmed, and a body
\* without a second line has given the empty username.
C7_Witness ==
  /\ exchange.op = "validate"
  /\ \/ /\ TextBody = <<"yes", "\n", " ", "jdoe">>
        /\ sync_call.lib = "requests" /\ async_call.lib = "aiohttp"
        /\ sync_call.out.value.username = <<"jdoe">>
        /\ async_call.out.value.username = <<"jdoe">>
     \/ /\ TextBody = <<"yes">>
        /\ sync_call.lib = "httpx" /\ async_call.lib = "httpx"
        /\ sync_call.out.value.username = <<>>
        /\ async_call.out.value.username = <<>>

\* What a caller observes of an outcome: the returned value without its
\* client reference, or the kind of error and its message.
Observable(out) ==
  IF out.kind = "raise" THEN [kind |-> "raise", type |-> out.exc.type, args |-> out.exc.args]
  ELSE IF exchange.op = "logout" THEN [kind |-> "return", value |-> out.value]
  ELSE [kind |-> "return",
        value |-> [f \in (DOMAIN out.value) \ {"client"} |-> out.value[f]]]

\* C8: for every operation and every server response, the blocking and the
\* non-blocking variant return equal results or raise the same kind of error
\* with the same message, whichever adapter implements each.
C8_BlockingEqualsNonBlocking ==
  (sync_call.lib # "none" /\ async_call.lib # "none") =>
    Observable(sync_call.out) = Observable(async_call.out)

SamlParse == exchange.op = "saml_validate"

HasStatusCode == FindAll(Root, XML_SAML_NS.samlp, "StatusCode") # <<>>

\* C9: the samlValidate parser fails with ValueError when the document has no
\* StatusCode; otherwise it returns a result exactly when Value without its
\* first 6 characters is "Success" and in every other case raises an
\* authentication failure built from that bare status; it ends in no other
\* error.
C9_SamlStatusDecides ==
  SamlParse =>
    \A c \in Made :
      IF ~HasStatusCode THEN IsMalformed(c.out)
      ELSE LET value == FirstStatusCode.attrs.Value
           IN IF value # None /\ DropSix(value) = "Success" THEN IsResult(c.out)
              ELSE /\ IsAuthFailure(c.out)
                   /\ value # None =>
                        \E m \in {"", "inner", "outer"} :
                          c.out.exc =
                            CASServiceAuthenticationFailure(c.out.exc.client, DropSix(value), m)

\* The element whose child the first StatusCode is.
StatusParent ==
  Head(SelectSeq(<<Root>> \o Descendants(Root),
                 LAMBDA e : \E i \in DOMAIN e.kids : e.kids[i] = FirstStatusCode))

\* C10: when the bare status is neither "Success" nor a known authentication
\* code, the message of the failure raised is the text of the StatusMessage
\* that is a sibling of the StatusCode, and is empty only when there is none.
C10_MessageIsSiblingStatusMessage ==
  (/\ SamlParse /\ HasStatusCode
   /\ FirstStatusCode.attrs.Value # None
   /\ DropSix(FirstStatusCode.attrs.Value) \notin AuthCodes \cup {"Success"}) =>
    \A c \in Made :
      /\ IsAuthFailure(c.out)
      /\ c.out.exc.args =
           <<IF HasChild(StatusParent, XML_SAML_NS.samlp, "StatusMessage")
             THEN FirstChild(StatusParent, XML_SAML_NS.samlp, "StatusMessage").text
             ELSE "">>

\* The children of el with the qualified name ns:tag.
Children(el, ns, tag) == SelectSeq(el.kids, LAMBDA e : e.ns = ns /\ e.tag = tag)

\* C11: the proxy parser returns a result only if the root has a
\* cas:proxySuccess child holding a cas:proxyTicket child, the result's
\* proxy_ticket being that child's text; it raises a proxy failure only if a
\* cas:proxyFailure child is present; a document with neither a ticketed
\* proxySuccess nor a proxyFailure ends in ValueError, not in a result.
C11_ProxyResultFailureOrMalformed ==
  exchange.op = "proxy" =>
    LET successes == Children(Root, XML_CAS_NS.cas, "proxySuccess")
        ticketed == SelectSeq(successes,
                      LAMBDA e : Children(e, XML_CAS_NS.cas, "proxyTicket") # <<>>)
        failures == Children(Root, XML_CAS_NS.cas, "proxyFailure")
    IN \A c \in Made :
         /\ IsResult(c.out) =>
              \E i \in DOMAIN ticketed :
                c.out.value.proxy_ticket =
                  Head(Children(ticketed[i], XML_CAS_NS.cas, "proxyTicket")).text
         /\ IsProxyFailure(c.out) => failures # <<>>
         /\ (ticketed = <<>> /\ failures = <<>>) => IsMalformed(c.out)

\* A proxySuccess without a proxyTicket, and no proxyFailure, has ended in
\* ValueError.
C11_Witness ==
  /\ exchange.op = "proxy"
  /\ Children(Root, XML_CAS_NS.cas, "proxySuccess") # <<>>
  /\ Children(Head(Children(Root, XML_CAS_NS.cas, "proxySuccess")),
              XML_CAS_NS.cas, "proxyTicket") = <<>>
  /\ Children(Root, XML_CAS_NS.cas, "proxyFailure") = <<>>
  /\ \E c \in Made : IsMalformed(c.out)

\* The first cas:authenticationSuccess child of the root.
SuccessEl == FirstChild(Root, XML_CAS_NS.cas, "authenticationSuccess")

\* C12: on a success document service_validate returns proxies absent even
\* when the document holds cas:proxies, proxy_validate returns the texts of
\* the children of cas:proxies in document order (absent without a
\* cas:proxies element), and username, proxy-granting ticket and attributes
\* are those the other mode returns.
C12_ProxiesOnlyInProxyMode ==
  (CasParse /\ HasSuccess) =>
    \A c \in Made :
      LET proxy_mode == exchange.op = "proxy_validate"
          other == _parse_service_validate_content(c.out.value.client, Root, ~proxy_mode)
          listed == Children(SuccessEl, XML_CAS_NS.cas, "proxies")
      IN /\ IsResult(c.out)
         /\ ~proxy_mode => c.out.value.proxies = None
         /\ (proxy_mode /\ listed = <<>>) => c.out.value.proxies = None
         /\ (proxy_mode /\ listed # <<>>) =>
              c.out.value.proxies =
                [i \in DOMAIN Head(listed).kids |-> Head(listed).kids[i].text]
         /\ c.out.value.username = other.value.username
         /\ c.out.value.proxy_granting_ticket = other.value.proxy_granting_ticket
         /\ c.out.value.attrs = other.value.attrs

\* Both modes have been called on a document with two proxies: the
\* proxy-validate call lists them in order.
C12_Witness ==
  /\ exchange.op = "proxy_validate"
  /\ HasSuccess
  /\ Children(SuccessEl, XML_CAS_NS.cas, "proxies") # <<>>
  /\ Len(Head(Children(SuccessEl, XML_CAS_NS.cas, "proxies")).kids) = 2
  /\ sync_call.lib # "none" /\ async_call.lib # "none"
  /\ sync_call.out.value.proxies =
       <<"https://proxy2.example.com/", "https://proxy1.example.com/">>
  /\ async_call.out.value.proxies = sync_call.out.value.proxies

\* C13: in every successful serviceValidate/proxyValidate result the username
\* is a string: the text of the cas:user child, and the empty string, never
\* an absent value, when that element is textually empty.
C13_UsernameIsString ==
  (CasParse /\ HasSuccess /\ HasChild(SuccessEl, XML_CAS_NS.cas, "user")) =>
    \A c \in Made :
      /\ IsResult(c.out)
      /\ c.out.value.username =
           (IF FirstChild(SuccessEl, XML_CAS_NS.cas, "user").text = None
            THEN ""
            ELSE FirstChild(SuccessEl, XML_CAS_NS.cas, "user").text)

\* A response is a redirect when its status is 3xx and it names a Location.
IsRedirect(response) == response.status \in 300..399 /\ response.location # None

\* C14: for every response to the login POST, in every adapter and both
\* modes, the result has success true exactly when the status is 200, 201 or
\* 302, http_status equal to the status, and redirect_url equal to the
\* Location header when the response is a redirect and to the empty string
\* when it is not, even if a non-redirect response carries a Location.
C14_LoginResult ==
  exchange.op = "login" =>
    \A c \in Made :
      /\ IsResult(c.out)
      /\ c.out.value.success <=> exchange.response.status \in {200, 201, 302}
      /\ c.out.value.http_status = exchange.response.status
      /\ c.out.value.redirect_url =
           (IF IsRedirect(exchange.response) THEN exchange.response.location ELSE "")

\* C29: when the document of a serviceValidate or proxyValidate response has
\* both a cas:authenticationSuccess child and a cas:authenticationFailure
\* child, in either order, every call returns the success result, built from
\* the first success element, and raises no failure.
C29_SuccessWinsOverFailure ==
  (CasParse /\ HasSuccess /\ HasFailure) =>
    \A c \in Made :
      /\ IsResult(c.out)
      /\ Observable(c.out) =
           Observable(ServiceValidateSuccess(Client(c.lib, FALSE), SuccessEl,
                                             exchange.op = "proxy_validate"))

\* A document whose failure element comes before its success element has been
\* parsed by both variants.
C29_Witness ==
  /\ CasParse
  /\ HasSuccess /\ HasFailure
  /\ FindChild(Root, XML_CAS_NS.cas, "authenticationFailure") <
       FindChild(Root, XML_CAS_NS.cas, "authenticationSuccess")
  /\ sync_call.lib # "none" /\ async_call.lib # "none"
  /\ IsResult(sync_call.out) /\ IsResult(async_call.out)

\* ---------------------------------------------------------------- URLs

\* A string that is quoted, split or parsed is the sequence of its pieces: a
\* piece is one reserved character or a run of unreserved ones.
UrlSpell ==
  ("https://cas.example.com/cas" :> <<"https", ":", "/", "/", "cas.example.com", "/", "cas">>) @@
  ("http://localhost:8443" :> <<"http", ":", "/", "/", "localhost", ":", "8443">>) @@
  ("https://service.example.com/" :> <<"https", ":", "/", "/", "service.example.com", "/">>) @@
  ("https://service.example.com/login" :>
     <<"https", ":", "/", "/", "service.example.com", "/", "login">>) @@
  ("https://service.example.com/pgt" :>
     <<"https", ":", "/", "/", "service.example.com", "/", "pgt">>)

\* The pieces of a string: spelt out when it is a URL above, else one piece.
Pieces(str) == IF str \in DOMAIN UrlSpell THEN UrlSpell[str] ELSE <<str>>

\* urllib.parse.quote_plus, piece by piece: a space becomes "+", every other
\* reserved character its percent escape, unreserved runs stay.
Escapes ==
  (" " :> "+") @@ ("&" :> "%26") @@ ("=" :> "%3D") @@ ("+" :> "%2B") @@
  (":" :> "%3A") @@ ("/" :> "%2F") @@ ("?" :> "%3F") @@ ("#" :> "%23")

\* A quoting that leaves every piece as it is.
QuotePlusNothing(pieces) == pieces

quote_plus(pieces) ==
  [i \in DOMAIN pieces |->
     IF pieces[i] \in DOMAIN Escapes THEN Escapes[pieces[i]] ELSE pieces[i]]

\* urllib.parse.unquote_plus (nv.replace('+', ' ') followed by unquote).
unquote_plus(pieces) ==
  [i \in DOMAIN pieces |->
     IF \E c \in DOMAIN Escapes : Escapes[c] = pieces[i]
     THEN CHOOSE c \in DOMAIN Escapes : Escapes[c] = pieces[i]
     ELSE pieces[i]]

RECURSIVE urlencode(_)
\* urllib.parse.urlencode of a dict (a sequence of [k, v] entries of piece
\* sequences, in insertion order): quote_plus(k) "=" quote_plus(v) joined by "&".
urlencode(params) ==
  IF params = <<>> THEN <<>>
  ELSE quote_plus(Head(params).k) \o <<"=">> \o quote_plus(Head(params).v)
       \o (IF Len(params) > 1 THEN <<"&">> \o urlencode(Tail(params)) ELSE <<>>)

\* The index of the first piece of s that is in the set stops, Len(s) + 1
\* when there is none.
FirstOf(s, stops) ==
  IF \E i \in DOMAIN s : s[i] \in stops
  THEN CHOOSE i \in DOMAIN s : s[i] \in stops /\ \A j \in 1..(i - 1) : s[j] \notin stops
  ELSE Len(s) + 1

RECURSIVE SplitOn(_, _)
\* str.split(sep): the fields between the separators.
SplitOn(s, sep) ==
  IF FirstOf(s, {sep}) > Len(s) THEN <<s>>
  ELSE <<SubSeq(s, 1, FirstOf(s, {sep}) - 1)>>
       \o SplitOn(SubSeq(s, FirstOf(s, {sep}) + 1, Len(s)), sep)

RECURSIVE ParsePairs(_, _)
\* urllib.parse.parse_qsl over the fields of a query: an empty field and a
\* field without "=" are skipped, a field with an empty value is kept only
\* with keep_blank_values.
ParsePairs(fields, keep_blank_values) ==
  IF fields = <<>> THEN <<>>
  ELSE LET nv == Head(fields)
           eq == FirstOf(nv, {"="})
           rest == ParsePairs(Tail(fields), keep_blank_values)
       IN IF nv = <<>> THEN rest
          ELSE IF eq > Len(nv)
          THEN (IF keep_blank_values
                THEN <<[k |-> unquote_plus(nv), v |-> <<>>]>> \o rest
                ELSE rest)
          ELSE IF eq < Len(nv) \/ keep_blank_values
          THEN <<[k |-> unquote_plus(SubSeq(nv, 1, eq - 1)),
                  v |-> unquote_plus(SubSeq(nv, eq + 1, Len(nv)))]>> \o rest
          ELSE rest

parse_qsl(query, keep_blank_values) == ParsePairs(SplitOn(query, "&"), keep_blank_values)

\* f"{self.provider}<path>" and, when kwargs is not empty, "?" and
\* urlencode(kwargs).
EndpointUrl(self, path, kwargs) ==
  Pieces(self.provider) \o <<path>>
  \o (IF Len(kwargs) > 0 THEN <<"?">> \o urlencode(kwargs) ELSE <<>>)

\* CASClientBase.login_form_url
login_form_url(self, gateway, renew, use_post) ==
  LET params == <<[k |-> <<"service">>, v |-> Pieces(self.callback_url)]>>
                \o (IF gateway THEN <<[k |-> <<"gateway">>, v |-> <<"true">>]>> ELSE <<>>)
                \o (IF renew THEN <<[k |-> <<"renew">>, v |-> <<"true">>]>> ELSE <<>>)
                \o (IF use_post THEN <<[k |-> <<"method">>, v |-> <<"POST">>]>> ELSE <<>>)
  IN Pieces(self.provider) \o <<"/login", "?">> \o urlencode(params)

login_url(self, kwargs) == EndpointUrl(self, "/login", kwargs)

logout_url(self, kwargs) == EndpointUrl(self, "/logout", kwargs)

validate_url(self, kwargs) == EndpointUrl(self, "/validate", kwargs)

\* A serviceValidate URL that takes the p3 path for every version above 2.
ServiceValidateUrlFrom3(self, version, kwargs) ==
  EndpointUrl(self, IF version >= 3 THEN "/p3/serviceValidate" ELSE "/serviceValidate", kwargs)

service_validate_url(self, version, kwargs) ==
  EndpointUrl(self, IF version = 3 THEN "/p3/serviceValidate" ELSE "/serviceValidate", kwargs)

proxy_validate_url(self, version, kwargs) ==
  EndpointUrl(self, IF version = 3 THEN "/p3/proxyValidate" ELSE "/proxyValidate", kwargs)

proxy_url(self, kwargs) == EndpointUrl(self, "/proxy", kwargs)

saml_validate_url(self, kwargs) == EndpointUrl(self, "/samlValidate", kwargs)

\* Characters that end an unreserved run in a URL.
UrlReserved == DOMAIN Escapes \cup {"[", "]"}

\* urllib.parse.urlsplit: the scheme up to the first ":" when only scheme
\* characters precede it; after "//" the netloc up to the first "/", "?" or
\* "#", with ValueError("Invalid IPv6 URL") when it holds one bracket without
\* the other; then the fragment after the first "#" and the query after the
\* first "?".
urlparse(url) ==
  LET colon == FirstOf(url, {":"})
      scheme_len == IF /\ colon <= Len(url) /\ colon > 1
                       /\ \A j \in 1..(colon - 1) : url[j] \notin UrlReserved
                    THEN colon ELSE 0
      rest == SubSeq(url, scheme_len + 1, Len(url))
      has_netloc == Len(rest) >= 2 /\ rest[1] = "/" /\ rest[2] = "/"
      after == IF has_netloc THEN SubSeq(rest, 3, Len(rest)) ELSE rest
      netloc_len == IF has_netloc THEN FirstOf(after, {"/", "?", "#"}) - 1 ELSE 0
      netloc == SubSeq(after, 1, netloc_len)
      opened == \E i \in DOMAIN netloc : netloc[i] = "["
      closed == \E i \in DOMAIN netloc : netloc[i] = "]"
      tail == SubSeq(after, netloc_len + 1, Len(after))
      nofrag == SubSeq(tail, 1, FirstOf(tail, {"#"}) - 1)
      query == SubSeq(nofrag, FirstOf(nofrag, {"?"}) + 1, Len(nofrag))
  IN IF (opened /\ ~closed) \/ (closed /\ ~opened)
     THEN Raise(Builtin("ValueError", <<"Invalid IPv6 URL">>))
     ELSE Return([query |-> query])

\* CASClientBase.ticket_from_url: params['ticket'][0] if 'ticket' in params
\* else '', over parse_qs(urlparse(url).query).
ticket_from_url(self, url) ==
  IF urlparse(url).kind = "raise" THEN urlparse(url)
  ELSE LET params == parse_qsl(urlparse(url).value.query, FALSE)
           tickets == SelectSeq(params, LAMBDA e : e.k = <<"ticket">>)
       IN Return(IF tickets # <<>> THEN Head(tickets).v ELSE <<>>)

\* CASLoginData.ticket
CASLoginData_ticket(data) == ticket_from_url(data.client, data.redirect_url)

\* ---------------------------------------------------------------- form and query parameters

\* dict.get on a dict kept as a sequence of [k, v] entries.
DictKeys(d) == {d[i].k : i \in DOMAIN d}

DictValue(d, key) == d[CHOOSE i \in DOMAIN d : d[i].k = key].v

RECURSIVE DictUpdate(_, _)
\* {**data, **extra}: a key of data keeps its place and takes the value of
\* extra, a new key is added at the end.
DictUpdate(data, extra) ==
  IF extra = <<>> THEN data
  ELSE LET e == Head(extra)
           set == IF e.k \in DictKeys(data)
                  THEN [i \in DOMAIN data |-> IF data[i].k = e.k THEN e ELSE data[i]]
                  ELSE Append(data, e)
       IN DictUpdate(set, Tail(extra))

\* A merge in which the defaults win: {**extra, **data}.
LoginDataDefaultsWin(self, args) ==
  LET data == <<[k |-> "service", v |-> self.service_url],
                [k |-> "username", v |-> args.username],
                [k |-> "password", v |-> args.password],
                [k |-> "remember", v |-> args.remember],
                [k |-> "warn", v |-> args.warn]>>
  IN IF "extra_data" \in DOMAIN args THEN DictUpdate(args.extra_data, data) ELSE data

\* CASClient_Httpx._get_login_data, and the same lines of
\* CASClient_Requests.login and CASClient_AIOHttp.alogin.  Python's True and
\* False are written "True" and "False"; an absent extra_data is a call
\* without that argument.
_get_login_data(self, args) ==
  LET data == <<[k |-> "service", v |-> self.service_url],
                [k |-> "username", v |-> args.username],
                [k |-> "password", v |-> args.password],
                [k |-> "remember", v |-> args.remember],
                [k |-> "warn", v |-> args.warn]>>
  IN IF "extra_data" \in DOMAIN args THEN DictUpdate(data, args.extra_data) ELSE data

\* Validate parameters that always name renew.
ValidateParamsNamingRenew(self, ticket, renew) ==
  <<[k |-> <<"service">>, v |-> Pieces(self.service_url)],
    [k |-> <<"ticket">>, v |-> <<ticket>>],
    [k |-> <<"renew">>, v |-> <<IF renew THEN "true" ELSE "false">>]>>

\* CASClient_Httpx._validate_params, and the same lines of the other adapters.
_validate_params(self, ticket, renew) ==
  <<[k |-> <<"service">>, v |-> Pieces(self.service_url)],
    [k |-> <<"ticket">>, v |-> <<ticket>>]>>
  \o (IF renew THEN <<[k |-> <<"renew">>, v |-> <<"true">>]>> ELSE <<>>)

\* _service_validate_params of the three adapters; an absent pgt_url is None.
_service_validate_params(self, ticket, pgt_url, renew) ==
  <<[k |-> <<"service">>, v |-> Pieces(self.service_url)],
    [k |-> <<"ticket">>, v |-> <<ticket>>]>>
  \o (IF pgt_url # None THEN <<[k |-> <<"pgtUrl">>, v |-> Pieces(pgt_url)]>> ELSE <<>>)
  \o (IF renew THEN <<[k |-> <<"renew">>, v |-> <<"true">>]>> ELSE <<>>)

\* The request an adapter sends: http.get(url, params = params).
Get(url, params) == [url |-> url, params |-> params]

\* ---------------------------------------------------------------- logout requests

XML_SAML_2_NS ==
  [soap  |-> "http://schemas.xmlsoap.org/soap/envelope/",
   samlp |-> "urn:oasis:names:tc:SAML:2.0:protocol",
   saml  |-> "urn:oasis:names:tc:SAML:2.0:assertion"]

\* The pieces of the IssueInstant values: digit runs and separators.
InstantSpell ==
  ("2025-12-05T09:21:59Z" :>
     <<"2025", "-", "12", "-", "05", "T", "09", ":", "21", ":", "59", "Z">>) @@
  ("2025-12-05T09:21:59.817Z" :>
     <<"2025", "-", "12", "-", "05", "T", "09", ":", "21", ":", "59", ".", "817", "Z">>) @@
  ("2025-13-05T09:21:59Z" :>
     <<"2025", "-", "13", "-", "05", "T", "09", ":", "21", ":", "59", "Z">>) @@
  ("2025-12-05 09:21:59" :>
     <<"2025", "-", "12", "-", "05", " ", "09", ":", "21", ":", "59">>) @@
  ("yesterday" :> <<"yesterday">>)

\* The numbers that the digit runs write.
DigitRuns ==
  ("2025" :> 2025) @@ ("12" :> 12) @@ ("13" :> 13) @@ ("05" :> 5) @@ ("09" :> 9) @@
  ("21" :> 21) @@ ("59" :> 59) @@ ("817" :> 817)

\* datetime.strptime(s, "%Y-%m-%dT%H:%M:%SZ"): TypeError when s is not a str,
\* ValueError when s does not match the format or a field is out of range.
strptime(s) ==
  IF s = None
  THEN Raise(Builtin("TypeError", <<"strptime() argument 1 must be str, not None">>))
  ELSE LET p == InstantSpell[s]
           shaped == /\ Len(p) = 12
                     /\ <<p[2], p[4], p[6], p[8], p[10], p[12]>> = <<"-", "-", "T", ":", ":", "Z">>
                     /\ \A i \in {1, 3, 5, 7, 9, 11} : p[i] \in DOMAIN DigitRuns
           ranged == /\ DigitRuns[p[3]] \in 1..12 /\ DigitRuns[p[5]] \in 1..31
                     /\ DigitRuns[p[7]] \in 0..23 /\ DigitRuns[p[9]] \in 0..59
                     /\ DigitRuns[p[11]] \in 0..61
       IN IF shaped /\ ranged
          THEN Return([year |-> DigitRuns[p[1]], month |-> DigitRuns[p[3]],
                       day |-> DigitRuns[p[5]], hour |-> DigitRuns[p[7]],
                       minute |-> DigitRuns[p[9]], second |-> DigitRuns[p[11]]])
          ELSE Raise(Builtin("ValueError", <<"time data does not match format">>))

\* schemas.CASLogoutData; issued_at is a datetime or the raw string.
CASLogoutData(request_id, issued_at, session_id) ==
  [request_id |-> request_id, issued_at |-> issued_at, session_id |-> session_id]

Datetime(dt) == [datetime |-> dt]

RawInstant(str) == [raw |-> str]

\* CASClientBase.parse_logout_request
parse_logout_request(root) ==
  LET session == FindAll(root, XML_SAML_2_NS.samlp, "SessionIndex")
      parsed == strptime(root.attrs.IssueInstant)
  IN IF session = <<>>
     THEN Raise(Builtin("AttributeError", <<"'NoneType' object has no attribute 'text'">>))
     ELSE IF parsed.kind = "return"
     THEN Return(CASLogoutData(root.attrs.ID, Datetime(parsed.value), Head(session).text))
     ELSE IF parsed.exc.type = "ValueError"
     THEN Return(CASLogoutData(root.attrs.ID, RawInstant(root.attrs.IssueInstant),
                               Head(session).text))
     ELSE Raise(parsed.exc)

\* ---------------------------------------------------------------- local operations

Providers == {"https://cas.example.com/cas", "http://localhost:8443"}

\* Keys and values of the parameters handed to the URL builders.
ParamKeys == {<<"service">>, <<"ticket">>, <<"a", "&", "b">>}

ParamValues ==
  {<<>>, Pieces("https://service.example.com/"), <<"ST-1">>, <<"a", " ", "b">>,
   <<"x", "&", "y", "=", "z">>}

\* Mappings of at most MaxParams distinct keys, in insertion order.
Kwargs ==
  {d \in SeqUpTo([k : ParamKeys, v : ParamValues], MaxParams) :
     \A i, j \in DOMAIN d : i # j => d[i].k # d[j].k}

UrlBuilders ==
  {"login_url", "logout_url", "validate_url", "service_validate_url",
   "proxy_validate_url", "proxy_url", "saml_validate_url"}

\* The builders that take a version (2 where the others are called).
VersionedBuilders == {"service_validate_url", "proxy_validate_url"}

Versions == 1..MaxVersion

\* URLs handed to ticket_from_url: nothing, a service URL or one whose host
\* opens a bracket, then a query and a fragment or neither.
UrlHeads ==
  {<<>>, Pieces("https://service.example.com/"),
   <<"https", ":", "/", "/", "[", "service.example.com", "/">>}

QueryPieces == {"ticket", "=", "ST-1", "&", "x"}

UrlTails ==
  {<<>>} \cup {<<"?">> \o q \o f : q \in SeqUpTo(QueryPieces, MaxQuery),
                                   f \in {<<>>, <<"#", "ticket", "=", "ST-2">>}}

Urls == {h \o t : h \in UrlHeads, t \in UrlTails}

\* Redirect URLs of the login results whose ticket is read.
RedirectUrls ==
  {<<>>, Pieces("https://service.example.com/") \o <<"?", "ticket", "=", "ST-1">>,
   <<"https", ":", "/", "/", "[", "service.example.com", "/", "?", "ticket", "=", "ST-1">>}

\* The arguments of login: remember and warn as booleans, extra_data given or not.
ExtraEntries ==
  {[k |-> "service", v |-> "https://other.example.com/"], [k |-> "remember", v |-> "True"],
   [k |-> "lt", v |-> "LT-1"], [k |-> "warn", v |-> "False"]}

ExtraData ==
  {d \in SeqUpTo(ExtraEntries, MaxParams) : \A i, j \in DOMAIN d : i # j => d[i].k # d[j].k}

LoginArgs ==
  {[username |-> "jdoe", password |-> "secret", remember |-> r, warn |-> w] :
     r \in {"True", "False"}, w \in {"True", "False"}}
  \cup
  {[username |-> "jdoe", password |-> "secret", remember |-> r, warn |-> w, extra_data |-> x] :
     r \in {"True", "False"}, w \in {"True", "False"}, x \in ExtraData}

\* Documents answered to the versioned validations.
VersionedDocs ==
  {ServiceResponse(<<>>), ServiceResponse(<<SimpleSuccess>>),
   ServiceResponse(<<CasCoded("authenticationFailure", "INVALID_TICKET", None)>>)}

\* SAML 2.0 logout requests: ID and IssueInstant attributes, SessionIndex.
IssueInstants == {None} \cup DOMAIN InstantSpell

SessionParts ==
  {<<>>,
   <<El(XML_SAML_2_NS.samlp, "SessionIndex", NoAttrs, "session_id", <<>>)>>,
   <<El(XML_SAML_2_NS.saml, "NameID", NoAttrs, None, <<>>),
     El(XML_SAML_2_NS.samlp, "SessionIndex", NoAttrs, "session_id", <<>>)>>}

LogoutRequests ==
  {El(XML_SAML_2_NS.samlp, "LogoutRequest", [ID |-> id, IssueInstant |-> at], None, kids) :
     id \in {None, "123456789"}, at \in IssueInstants, kids \in SessionParts}

\* A local call: the operation and its arguments.
LocalCalls ==
  {[op |-> "login_form_url", provider |-> p, gateway |-> g, renew |-> r, use_post |-> u] :
     p \in Providers, g \in BOOLEAN, r \in BOOLEAN, u \in BOOLEAN}
  \cup {[op |-> b, provider |-> p, version |-> v, kwargs |-> k] :
          b \in VersionedBuilders, p \in Providers, v \in Versions, k \in Kwargs}
  \cup {[op |-> b, provider |-> p, version |-> 2, kwargs |-> k] :
          b \in UrlBuilders \ VersionedBuilders, p \in Providers, k \in Kwargs}
  \cup {[op |-> "ticket_from_url", url |-> u] : u \in Urls}
  \cup {[op |-> "ticket", success |-> TRUE, http_status |-> 302, redirect_url |-> u] :
          u \in RedirectUrls}
  \cup {[op |-> "login_data", args |-> a] : a \in LoginArgs}
  \cup {[op |-> "fetch_validate", ticket |-> "ST-1", renew |-> r] : r \in BOOLEAN}
  \cup {[op |-> o, ticket |-> "ST-1", pgt_url |-> g, renew |-> r, version |-> v, content |-> d] :
          o \in {"service_validate", "proxy_validate"},
          g \in {None, "https://service.example.com/pgt"}, r \in BOOLEAN,
          v \in Versions, d \in VersionedDocs}
  \cup {[op |-> "parse_logout_request", content |-> d] : d \in LogoutRequests}

\* The clients of the fixtures: blocking and non-blocking, of every adapter.
Clients ==
  {Client(l, FALSE) : l \in SyncLibs} \cup {Client(l, TRUE) : l \in AsyncLibs}

At(self, provider) == [self EXCEPT !.provider = provider]

LocalInit ==
  /\ exchange \in LocalCalls
  /\ sync_call = NoCall
  /\ async_call = NoCall

\* The call is recorded as the blocking or the non-blocking one of the client.
Record(self, call) ==
  IF self.is_async
  THEN async_call = NoCall /\ async_call' = call /\ UNCHANGED <<exchange, sync_call>>
  ELSE sync_call = NoCall /\ sync_call' = call /\ UNCHANGED <<exchange, async_call>>

LoginFormUrl ==
  /\ exchange.op = "login_form_url"
  /\ \E self \in Clients :
       Record(self, [lib |-> self.lib,
                     out |-> Return(login_form_url(At(self, exchange.provider), exchange.gateway,
                                                   exchange.renew, exchange.use_post))])

\* The URL builder named op.
BuildUrl(op, self, version, kwargs) ==
  CASE op = "login_url" -> login_url(self, kwargs)
    [] op = "logout_url" -> logout_url(self, kwargs)
    [] op = "validate_url" -> validate_url(self, kwargs)
    [] op = "service_validate_url" -> service_validate_url(self, version, kwargs)
    [] op = "proxy_validate_url" -> proxy_validate_url(self, version, kwargs)
    [] op = "proxy_url" -> proxy_url(self, kwargs)
    [] op = "saml_validate_url" -> saml_validate_url(self, kwargs)

EndpointUrls ==
  /\ exchange.op \in UrlBuilders
  /\ \E self \in Clients :
       Record(self, [lib |-> self.lib,
                     out |-> Return(BuildUrl(exchange.op, At(self, exchange.provider),
                                             exchange.version, exchange.kwargs))])

TicketFromUrl ==
  /\ exchange.op = "ticket_from_url"
  /\ \E self \in Clients :
       Record(self, [lib |-> self.lib, out |-> ticket_from_url(self, exchange.url)])

Ticket ==
  /\ exchange.op = "ticket"
  /\ \E self \in Clients :
       Record(self, [lib |-> self.lib,
                     out |-> CASLoginData_ticket(
                               CASLoginData(self, exchange.success, exchange.http_status,
                                            exchange.redirect_url))])

\* login / alogin up to the POST: the form fields sent.
LoginData ==
  /\ exchange.op = "login_data"
  /\ \E self \in Clients :
       Record(self, [lib |-> self.lib, out |-> Return(_get_login_data(self, exchange.args))])

\* fetch_validate / afetch_validate up to the GET: the request sent.
FetchValidate ==
  /\ exchange.op = "fetch_validate"
  /\ \E self \in Clients :
       Record(self, [lib |-> self.lib,
                     out |-> Return(Get(validate_url(self, <<>>),
                                        _validate_params(self, exchange.ticket, exchange.renew)))])

\* service_validate / aservice_validate of a version: the request sent and
\* the outcome of parsing the content answered.
VersionedServiceValidate ==
  /\ exchange.op = "service_validate"
  /\ \E self \in Clients :
       Record(self, [lib |-> self.lib,
                     request |-> Get(service_validate_url(self, exchange.version, <<>>),
                                     _service_validate_params(self, exchange.ticket,
                                                              exchange.pgt_url, exchange.renew)),
                     out |-> _parse_service_validate_content(self, exchange.content, FALSE)])

VersionedProxyValidate ==
  /\ exchange.op = "proxy_validate"
  /\ \E self \in Clients :
       Record(self, [lib |-> self.lib,
                     request |-> Get(proxy_validate_url(self, exchange.version, <<>>),
                                     _service_validate_params(self, exchange.ticket,
                                                              exchange.pgt_url, exchange.renew)),
                     out |-> _parse_service_validate_content(self, exchange.content, TRUE)])

ParseLogoutRequest ==
  /\ exchange.op = "parse_logout_request"
  /\ \E self \in Clients :
       Record(self, [lib |-> self.lib, out |-> parse_logout_request(exchange.content)])

LocalNext ==
  \/ LoginFormUrl
  \/ EndpointUrls
  \/ TicketFromUrl
  \/ Ticket
  \/ LoginData
  \/ FetchValidate
  \/ VersionedServiceValidate
  \/ VersionedProxyValidate
  \/ ParseLogoutRequest

LocalSpec == LocalInit /\ [][LocalNext]_vars

\* ---------------------------------------------------------------- properties of the local operations

\* The entries of extra_data, none when the call had no extra_data.
GivenExtra == IF "extra_data" \in DOMAIN exchange.args THEN exchange.args.extra_data ELSE <<>>

\* The default form fields of the call.
DefaultFields(self) ==
  ("service" :> self.service_url) @@ ("username" :> exchange.args.username) @@
  ("password" :> exchange.args.password) @@ ("remember" :> exchange.args.remember) @@
  ("warn" :> exchange.args.warn)

\* C15: the form fields posted by login/alogin are the defaults service,
\* username, password, remember, warn merged with extra_data: a key present
\* in both is sent with the value of extra_data, a key of extra_data that is
\* no default is added, a default not named in extra_data keeps its value,
\* and no key is sent twice.
C15_ExtraDataOverridesDefaults ==
  exchange.op = "login_data" =>
    \A c \in Made :
      LET sent == c.out.value
          self == Client(c.lib, c.lib = "aiohttp")
          defaults == DefaultFields(self)
      IN /\ DictKeys(sent) = DOMAIN defaults \cup DictKeys(GivenExtra)
         /\ \A i, j \in DOMAIN sent : i # j => sent[i].k # sent[j].k
         /\ \A i \in DOMAIN sent :
              IF sent[i].k \in DictKeys(GivenExtra)
              THEN sent[i].v = DictValue(GivenExtra, sent[i].k)
              ELSE sent[i].v = defaults[sent[i].k]

\* extra_data has replaced the default service and added the field lt.
C15_Witness ==
  /\ exchange.op = "login_data"
  /\ GivenExtra = <<[k |-> "lt", v |-> "LT-1"],
                    [k |-> "service", v |-> "https://other.example.com/"]>>
  /\ \E c \in Made :
       /\ DictValue(c.out.value, "service") = "https://other.example.com/"
       /\ DictValue(c.out.value, "lt") = "LT-1"
       /\ DictValue(c.out.value, "username") = "jdoe"

\* The value of the ticket parameter in a URL: the pieces between the first
\* "ticket=" that opens a field of the query and the end of that field.
QueryOf(url) ==
  LET hash == FirstOf(url, {"#"})
      nofrag == SubSeq(url, 1, hash - 1)
  IN SubSeq(nofrag, FirstOf(nofrag, {"?"}) + 1, Len(nofrag))

TicketFields(url) ==
  SelectSeq(SplitOn(QueryOf(url), "&"),
            LAMBDA f : Len(f) >= 3 /\ f[1] = "ticket" /\ f[2] = "=")

\* C16: ticket_from_url returns for every input string, malformed URLs
\* included, and never raises: the value of the ticket query parameter when
\* there is one, the empty string otherwise; so LoginResult.ticket never
\* raises and is empty when redirect_url is empty.
C16_TicketFromUrlTotal ==
  /\ exchange.op = "ticket_from_url" =>
       \A c \in Made :
         /\ c.out.kind = "return"
         /\ c.out.value = (IF TicketFields(exchange.url) # <<>>
                           THEN SubSeq(Head(TicketFields(exchange.url)), 3,
                                       Len(Head(TicketFields(exchange.url))))
                           ELSE <<>>)
  /\ exchange.op = "ticket" =>
       \A c \in Made :
         /\ c.out.kind = "return"
         /\ exchange.redirect_url = <<>> => c.out.value = <<>>

\* The paths a builder may put after the provider.
EndpointPaths ==
  ("login_url" :> {"/login"}) @@ ("logout_url" :> {"/logout"}) @@
  ("validate_url" :> {"/validate"}) @@
  ("service_validate_url" :> {"/serviceValidate", "/p3/serviceValidate"}) @@
  ("proxy_validate_url" :> {"/proxyValidate", "/p3/proxyValidate"}) @@
  ("proxy_url" :> {"/proxy"}) @@ ("saml_validate_url" :> {"/samlValidate"})

\* C17: for every provider and every mapping K of string parameters, each
\* of the seven URL builders returns the provider followed by the endpoint
\* path, with no "?" when K is empty, and followed by "?" and a query string
\* that parses back (blank values kept) to exactly the pairs of K, in K's
\* insertion order, when K is not empty.
C17_EndpointUrlRoundTrips ==
  exchange.op \in UrlBuilders =>
    \A c \in Made :
      LET url == c.out.value
          base == Len(Pieces(exchange.provider)) + 1
      IN /\ Len(url) >= base
         /\ SubSeq(url, 1, base - 1) = Pieces(exchange.provider)
         /\ url[base] \in EndpointPaths[exchange.op]
         /\ IF exchange.kwargs = <<>>
            THEN Len(url) = base
            ELSE /\ Len(url) > base
                 /\ url[base + 1] = "?"
                 /\ parse_qsl(SubSeq(url, base + 2, Len(url)), TRUE) = exchange.kwargs

\* A mapping whose key and value hold "&", "=" and a space has been encoded
\* into a URL.
C17_Witness ==
  /\ exchange.op = "proxy_url"
  /\ exchange.kwargs = <<[k |-> <<"a", "&", "b">>, v |-> <<"x", "&", "y", "=", "z">>],
                         [k |-> <<"service">>, v |-> <<"a", " ", "b">>]>>
  /\ \E c \in Made :
       c.out.value =
         Pieces(exchange.provider)
         \o <<"/proxy", "?", "a", "%26", "b", "=", "x", "%26", "y", "%3D", "z",
              "&", "service", "=", "a", "+", "b">>

\* The query parameters a call has built: those of the URL of login_form_url,
\* those handed to the GET of the validations.
BuiltParams(c) ==
  IF exchange.op = "login_form_url"
  THEN parse_qsl(SubSeq(c.out.value, FirstOf(c.out.value, {"?"}) + 1, Len(c.out.value)), TRUE)
  ELSE IF exchange.op = "fetch_validate" THEN c.out.value.params
  ELSE c.request.params

\* The parameter key is built exactly when set holds, and then with value.
BuiltIff(params, key, set, value) ==
  /\ (<<key>> \in DictKeys(params)) <=> set
  /\ set => DictValue(params, <<key>>) = value
  /\ Cardinality({i \in DOMAIN params : params[i].k = <<key>>}) <= 1

\* C18: in the URL of login_form_url and in the queries of the validate,
\* serviceValidate and proxyValidate requests a boolean option (gateway,
\* renew) is written "true" exactly when set and is left out when not set,
\* never "false"; service and ticket are always there, pgtUrl exactly when a
\* pgt_url was given, method=POST exactly when use_post is set.
C18_FlagsTrueOrOmitted ==
  exchange.op \in {"login_form_url", "fetch_validate", "service_validate", "proxy_validate"} =>
    \A c \in Made :
      LET params == BuiltParams(c)
          self == Client(c.lib, c.lib = "aiohttp")
      IN /\ \A i \in DOMAIN params : params[i].v # <<"false">>
         /\ BuiltIff(params, "renew", exchange.renew, <<"true">>)
         /\ IF exchange.op = "login_form_url"
            THEN /\ BuiltIff(params, "service", TRUE, Pieces(self.callback_url))
                 /\ BuiltIff(params, "gateway", exchange.gateway, <<"true">>)
                 /\ BuiltIff(params, "method", exchange.use_post, <<"POST">>)
            ELSE /\ BuiltIff(params, "service", TRUE, Pieces(self.service_url))
                 /\ BuiltIff(params, "ticket", TRUE, <<exchange.ticket>>)
                 /\ BuiltIff(params, "gateway", FALSE, <<>>)
                 /\ BuiltIff(params, "method", FALSE, <<>>)
         /\ IF exchange.op \in {"service_validate", "proxy_validate"}
            THEN BuiltIff(params, "pgtUrl", exchange.pgt_url # None, Pieces(exchange.pgt_url))
            ELSE BuiltIff(params, "pgtUrl", FALSE, <<>>)

\* A validate request without renew and a login form URL with gateway only
\* have been built.
C18_Witness ==
  \/ /\ exchange.op = "fetch_validate" /\ ~exchange.renew
     /\ \E c \in Made : Len(c.out.value.params) = 2
  \/ /\ exchange.op = "login_form_url"
     /\ exchange.gateway /\ ~exchange.renew /\ ~exchange.use_post
     /\ \E c \in Made : Len(BuiltParams(c)) = 2

\* C19: service_validate and proxy_validate send their request to
\* /p3/serviceValidate and /p3/proxyValidate exactly when version is 3, and
\* to /serviceValidate and /proxyValidate for every other version; the URL
\* builders choose the same paths; the content answered is parsed as it is
\* by the operation without a version.
C19_P3PathOnlyForVersion3 ==
  /\ exchange.op \in {"service_validate", "proxy_validate"} =>
       \A c \in Made :
         LET self == Client(c.lib, c.lib = "aiohttp")
             stem == IF exchange.op = "service_validate" THEN "serviceValidate" ELSE "proxyValidate"
             path == IF exchange.version = 3
                     THEN IF stem = "serviceValidate" THEN "/p3/serviceValidate" ELSE "/p3/proxyValidate"
                     ELSE IF stem = "serviceValidate" THEN "/serviceValidate" ELSE "/proxyValidate"
         IN /\ c.request.url = Pieces(self.provider) \o <<path>>
            /\ Observable(c.out) =
                 Observable(Operate(exchange.op, self, Response(200, None, Xml(exchange.content))))
  /\ exchange.op \in VersionedBuilders =>
       \A c \in Made :
         LET path == c.out.value[Len(Pieces(exchange.provider)) + 1]
         IN path \in {"/p3/serviceValidate", "/p3/proxyValidate"} <=> exchange.version = 3

\* A version above 3 has been sent to the path of version 2.
C19_Witness ==
  /\ exchange.op = "service_validate_url"
  /\ exchange.version = 4
  /\ exchange.kwargs = <<>>
  /\ \E c \in Made : c.out.value = Pieces(exchange.provider) \o <<"/serviceValidate">>

\* C20: parse_logout_request never raises because of IssueInstant: when the
\* value matches YYYY-MM-DDTHH:MM:SSZ issued_at is that timestamp, in every
\* other case (wrong format, fractional seconds, attribute missing) issued_at
\* is the raw value unchanged and a result is still returned.
C20_IssueInstantNeverRaises ==
  (/\ exchange.op = "parse_logout_request"
   /\ FindAll(exchange.content, XML_SAML_2_NS.samlp, "SessionIndex") # <<>>) =>
    \A c \in Made :
      /\ c.out.kind = "return"
      /\ c.out.value.issued_at =
           (IF exchange.content.attrs.IssueInstant = "2025-12-05T09:21:59Z"
            THEN Datetime([year |-> 2025, month |-> 12, day |-> 5,
                           hour |-> 9, minute |-> 21, second |-> 59])
            ELSE RawInstant(exchange.content.attrs.IssueInstant))

\* C21: parse_logout_request on a document without a SessionIndex element
\* fails with the malformed-document error the other parsers raise
\* (ValueError) and returns no result; on a document with one, a result that
\* is returned has the element's text as session_id and the root's ID
\* attribute as request_id.
C21_NoSessionIndexIsMalformed ==
  exchange.op = "parse_logout_request" =>
    \A c \in Made :
      IF FindAll(exchange.content, XML_SAML_2_NS.samlp, "SessionIndex") = <<>>
      THEN IsMalformed(c.out)
      ELSE IsResult(c.out) =>
             /\ c.out.value.session_id =
                  Head(FindAll(exchange.content, XML_SAML_2_NS.samlp, "SessionIndex")).text
             /\ c.out.value.request_id = exchange.content.attrs.ID

\* ---------------------------------------------------------------- cas.py

SUPPORTED_HTTP_LIBS == <<"httpx", "requests", "aiohttp">>

\* The values of http_lib: 'default', the supported names, and names the
\* factory does not know.
HttpLibs == {"default", "httpx", "requests", "aiohttp", "urllib3", ""}

\* importlib.util.find_spec(lib) is truthy exactly when lib is installed.
find_spec(installed, lib) == lib \in installed

\* A probe that prefers requests to httpx.
ProbeRequestsFirst(installed, http_lib) ==
  LET found == SelectSeq(<<"requests", "httpx", "aiohttp">>, LAMBDA lib : find_spec(installed, lib))
  IN IF found = <<>> THEN http_lib ELSE Head(found)

\* CASClient.create: the loop over SUPPORTED_HTTP_LIBS, which rebinds http_lib
\* to the first library found and leaves it alone when none is.
Probe(installed, http_lib) ==
  LET found == SelectSeq(SUPPORTED_HTTP_LIBS, LAMBDA lib : find_spec(installed, lib))
  IN IF found = <<>> THEN http_lib ELSE Head(found)

\* The adapters' constructors: requests is always blocking, aiohttp always
\* non-blocking, httpx as asked.
CASClient_Httpx(is_async) == Client("httpx", is_async)

CASClient_Requests(is_async) == Client("requests", FALSE)

CASClient_AIOHttp(is_async) == Client("aiohttp", TRUE)

\* from .clients.<lib> import ...: the adapter's module imports the library.
Import(installed, lib, made) ==
  IF lib \in installed THEN Return(made)
  ELSE Raise(Builtin("ModuleNotFoundError", <<"No module named", lib>>))

\* CASClient.create(provider, service_url, callback_url, is_async, http_lib)
create(installed, http_lib, is_async) ==
  LET lib == IF http_lib = "default" THEN Probe(installed, http_lib) ELSE http_lib
  IN IF lib = "default"
     THEN Raise(Builtin("ValueError", <<"No supported HTTP library installed.">>))
     ELSE IF lib = "httpx" THEN Import(installed, lib, CASClient_Httpx(is_async))
     ELSE IF lib = "requests" THEN Import(installed, lib, CASClient_Requests(is_async))
     ELSE IF lib = "aiohttp" THEN Import(installed, lib, CASClient_AIOHttp(is_async))
     ELSE Raise(Builtin("ValueError", <<"Incorrect http_lib value.">>))

\* The factory's specification.  exchange holds the environment and the
\* arguments of one call of create; the client made, or the error raised, is
\* recorded as a blocking call when is_async is false and as a non-blocking
\* one when it is true.
FactoryInit ==
  /\ exchange \in {[op |-> "create", installed |-> i, http_lib |-> h, is_async |-> a] :
                     i \in SUBSET {"httpx", "requests", "aiohttp"}, h \in HttpLibs,
                     a \in BOOLEAN}
  /\ sync_call = NoCall
  /\ async_call = NoCall

\* CASClient.create(..., is_async = False, http_lib = ...)
Create ==
  /\ ~exchange.is_async
  /\ sync_call = NoCall
  /\ sync_call' = [lib |-> exchange.http_lib,
                   out |-> create(exchange.installed, exchange.http_lib, FALSE)]
  /\ UNCHANGED <<exchange, async_call>>

\* CASClient.create(..., is_async = True, http_lib = ...)
CreateAsync ==
  /\ exchange.is_async
  /\ async_call = NoCall
  /\ async_call' = [lib |-> exchange.http_lib,
                    out |-> create(exchange.installed, exchange.http_lib, TRUE)]
  /\ UNCHANGED <<exchange, sync_call>>

FactoryNext == Create \/ CreateAsync

FactorySpec == FactoryInit /\ [][FactoryNext]_vars

\* The first of the supported libraries, in the order httpx, requests,
\* aiohttp, that is installed (one is).
FirstInstalled ==
  CHOOSE lib \in exchange.installed :
    \A i, j \in DOMAIN SUPPORTED_HTTP_LIBS :
      (SUPPORTED_HTTP_LIBS[i] = lib /\ SUPPORTED_HTTP_LIBS[j] \in exchange.installed) => i <= j

IsValueError(out) == out.kind = "raise" /\ out.exc.type = "ValueError"

\* The outcome is a client of the adapter of lib.
IsClientOf(out, lib) == out.kind = "return" /\ out.value.lib = lib

Supported == {"httpx", "requests", "aiohttp"}

NetworkOps ==
  {"login", "logout", "validate", "service_validate", "proxy_validate", "proxy",
   "saml_validate"}

\* The operations that parse a document.
ParseOps ==
  {"service_validate", "proxy_validate", "proxy", "saml_validate", "parse_logout_request"}

\* What the transport answers a request with instead of a response when the
\* server cannot be reached.
TransportFailure == [failure |-> "connect"]

\* The input of a call that never reached the transport.
Unsent == [unsent |-> TRUE]

\* The server's answers to an operation: a success, a reported failure or a
\* malformed body, and no answer at all.
Answers(op) ==
  {TransportFailure} \cup
  CASE op = "login" ->
         {Response(302, "https://service.example.com/?ticket=ST-1", Unread),
          Response(401, None, Unread)}
    [] op = "logout" -> {Response(200, None, Unread), Response(401, None, Unread)}
    [] op = "validate" ->
         {Response(200, None, Text(<<"yes", "\n", "jdoe", "\n">>)),
          Response(200, None, Text(<<"no", "\n">>))}
    [] op \in {"service_validate", "proxy_validate"} ->
         {Response(200, None, Xml(ServiceResponse(<<SimpleSuccess>>))),
          Response(200, None, Xml(ServiceResponse(
            <<CasCoded("authenticationFailure", "INVALID_TICKET", "Ticket not recognized")>>)))}
    [] op = "proxy" ->
         {Response(200, None, Xml(ServiceResponse(
            <<Cas("proxySuccess", None, <<Cas("proxyTicket", "PT-1", <<>>)>>)>>))),
          Response(200, None, Xml(ServiceResponse(<<>>)))}
    [] op = "saml_validate" ->
         {Response(200, None, Xml(Envelope(
            <<Samlp("Status", None, <<StatusCode(XML_SAML_NS.samlp, "samlp:Success", <<>>)>>),
              SimpleAssertion>>))),
          Response(200, None, Xml(Envelope(<<>>)))}

\* The logout requests handed to parse_logout_request.
Notifications ==
  {El(XML_SAML_2_NS.samlp, "LogoutRequest",
      [ID |-> "123456789", IssueInstant |-> "2025-12-05T09:21:59Z"], None, kids) :
     kids \in SessionParts}

\* The error the library raises when the server cannot be reached.
TransportError(self) ==
  Builtin(CASE self.lib = "httpx" -> "httpx.ConnectError"
            [] self.lib = "requests" -> "requests.ConnectionError"
            [] self.lib = "aiohttp" -> "aiohttp.ClientConnectorError", <<>>)

\* An operation that remembers the outcome of its last call and answers the
\* next call of the same operation with it.
PerformCachingByOperation(op, self, given) ==
  IF sync_call.lib # "none" /\ sync_call.op = op /\ sync_call.sent = 1 THEN sync_call.out
  ELSE IF async_call.lib # "none" /\ async_call.op = op /\ async_call.sent = 1 THEN async_call.out
  ELSE IF op = "parse_logout_request" THEN parse_logout_request(given)
  ELSE IF given = TransportFailure THEN Raise(TransportError(self))
  ELSE Operate(op, self, given)

\* The body of an operation once the transport has answered: the library's
\* error propagates, a response is handed to the operation's own code.
\* parse_logout_request is given the document itself.
Perform(op, self, given) ==
  IF op = "parse_logout_request" THEN parse_logout_request(given)
  ELSE IF given = TransportFailure THEN Raise(TransportError(self))
  ELSE Operate(op, self, given)

\* An operation that sends its request again when the first answer fails.
IssueRetrying(op, self, response) ==
  [sent |-> IF Perform(op, self, response).kind = "raise" THEN 2 ELSE 1,
   out |-> Perform(op, self, response)]

\* The one self.http.get / post / stream of an operation and the rest of the
\* operation on its answer.  A request is one call of the transport; what
\* the library does inside that call is the library's.
Issue(op, self, response) == [sent |-> 1, out |-> Perform(op, self, response)]

Variants == {"blocking", "non-blocking"}

\* self.is_async
Mode(self) == IF self.is_async THEN "non-blocking" ELSE "blocking"

\* The variants an adapter overrides; the others are the base class's, which
\* raise NotImplementedError.
Implements(lib) ==
  CASE lib = "httpx" -> Variants
    [] lib = "requests" -> {"blocking"}
    [] lib = "aiohttp" -> {"non-blocking"}

\* httpx.Client, httpx.AsyncClient and aiohttp.ClientSession refuse to send
\* once closed; requests.Session.close() releases the pooled connections and
\* the session opens new ones on the next request.
ClosedError(self) ==
  Builtin("RuntimeError",
          IF self.lib = "aiohttp" THEN <<"Session is closed">>
          ELSE <<"Cannot send a request, as the client has been closed.">>)

RefusesWhenClosed(self) == self.lib \in {"httpx", "aiohttp"}

\* A call of the blocking or the non-blocking variant of op on self: the
\* requests handed to the transport and the outcome.
\*  - a variant the adapter does not override raises NotImplementedError;
\*  - the httpx adapter has both variants over one self.http.  An awaiting
\*    operation on an httpx.Client evaluates self.http.get(...), which sends
\*    the request and returns the Response, and then fails on awaiting it;
\*    avalidate fails on entering its async with block before anything is sent.  A
\*    blocking operation on an httpx.AsyncClient gets a coroutine that is
\*    never awaited and fails on reading it.
Call(self, closed, op, variant, response) ==
  IF variant \notin Implements(self.lib)
  THEN [sent |-> 0, out |-> Raise(Builtin("NotImplementedError", <<>>))]
  ELSE IF variant = Mode(self)
  THEN IF closed /\ RefusesWhenClosed(self)
       THEN [sent |-> 0, out |-> Raise(ClosedError(self))]
       ELSE Issue(op, self, response)
  ELSE IF variant = "non-blocking"
  THEN IF op = "validate"
       THEN [sent |-> 0,
             out |-> Raise(Builtin("TypeError",
                       <<"object does not support the asynchronous context manager protocol">>))]
       ELSE IF closed THEN [sent |-> 0, out |-> Raise(ClosedError(self))]
       ELSE IF response = TransportFailure
       THEN [sent |-> 1, out |-> Raise(TransportError(self))]
       ELSE [sent |-> 1,
             out |-> Raise(Builtin("TypeError",
                       <<"object Response can't be used in 'await' expression">>))]
  ELSE IF op = "validate"
  THEN [sent |-> 0,
        out |-> Raise(Builtin("TypeError",
                  <<"object does not support the context manager protocol">>))]
  ELSE [sent |-> 0,
        out |-> Raise(Builtin("AttributeError",
                  <<"'coroutine' object has no attribute 'status_code'">>))]

\* ---------------------------------------------------------------- context managers

NoExc == [type |-> "none"]

\* __enter__ of the adapter (the base class's raises NotImplementedError).
\* The messages are written without their backquotes.
__enter__(self) ==
  CASE self.lib = "httpx" ->
         IF self.is_async
         THEN Raise(Builtin("Exception",
                <<"You can't use with statement with async client. Use async with instead.">>))
         ELSE Return(self)
    [] self.lib = "requests" -> Return(self)
    [] self.lib = "aiohttp" -> Raise(Builtin("NotImplementedError", <<>>))

\* __aenter__ of the adapter
__aenter__(self) ==
  CASE self.lib = "httpx" ->
         IF self.is_async = FALSE
         THEN Raise(Builtin("Exception",
                <<"You can't use async with statement with sync client. Use with instead.">>))
         ELSE Return(self)
    [] self.lib = "aiohttp" -> Return(self)
    [] self.lib = "requests" -> Raise(Builtin("NotImplementedError", <<>>))

\* close(): self.http.close().  An httpx.AsyncClient has no close method.
close(self) ==
  CASE self.lib = "httpx" ->
         IF self.is_async
         THEN Raise(Builtin("AttributeError", <<"'AsyncClient' object has no attribute 'close'">>))
         ELSE Return(None)
    [] self.lib = "requests" -> Return(None)
    [] self.lib = "aiohttp" -> Raise(Builtin("NotImplementedError", <<>>))

\* aclose(): await self.http.aclose() (httpx), await self.http.close()
\* (aiohttp).  An httpx.Client has no aclose method.
aclose(self) ==
  CASE self.lib = "httpx" ->
         IF self.is_async THEN Return(None)
         ELSE Raise(Builtin("AttributeError", <<"'Client' object has no attribute 'aclose'">>))
    [] self.lib = "aiohttp" -> Return(None)
    [] self.lib = "requests" -> Raise(Builtin("NotImplementedError", <<>>))

\* An exit that closes only after a block that ended normally and swallows
\* the block's exception.
ExitSwallowing(self, raised) ==
  [closes |-> IF raised = NoExc THEN 1 ELSE 0,
   closed |-> raised = NoExc /\ close(self).kind = "return",
   propagated |-> NoExc]

\* __exit__(exc_type, exc_value, traceback): one self.close(), and None
\* returned, so the block's exception, if any, goes on to the caller; an
\* error of close() itself takes its place.
__exit__(self, raised) ==
  [closes |-> 1,
   closed |-> close(self).kind = "return",
   propagated |-> IF close(self).kind = "raise" THEN close(self).exc ELSE raised]

\* __aexit__: one await self.aclose(), and None returned.
__aexit__(self, raised) ==
  [closes |-> 1,
   closed |-> aclose(self).kind = "return",
   propagated |-> IF aclose(self).kind = "raise" THEN aclose(self).exc ELSE raised]

\* ---------------------------------------------------------------- lifecycle

\* The lifecycle specification: one client from its construction on, the
\* operations called on it one after the other, its context-manager block
\* and its closing.  exchange holds the client (self, and made: the client
\* as __init__ left it), whether its transport has been closed, the
\* context-manager block (scope) and the first document parsed (parsed);
\* the last call is in sync_call when it was a blocking one and in async_call
\* when it was a non-blocking one (the other is then NoCall): the operation,
\* whether the transport was closed when it was made, the requests it handed
\* to the transport, the answer, and the outcome.

NoScope == [state |-> "none"]

NoParse == [phase |-> "none"]

\* The clients the adapters construct.
LifecycleClients ==
  {CASClient_Httpx(FALSE), CASClient_Httpx(TRUE), CASClient_Requests(FALSE),
   CASClient_AIOHttp(TRUE)}

LifecycleInit ==
  /\ exchange \in {[self |-> c, made |-> c, closed |-> FALSE, scope |-> NoScope,
                    parsed |-> NoParse] : c \in LifecycleClients}
  /\ sync_call = NoCall
  /\ async_call = NoCall

\* A login that rebinds the service URL to the callback URL.
AfterOperationRebinding(self, op) ==
  IF op = "login" THEN [self EXCEPT !.service_url = self.callback_url] ELSE self

\* The client after an operation: no method assigns an attribute of self;
\* the only assignments are those of __init__.
AfterOperation(self, op) == self

\* The call is a parse of a document: the operation's own code ran on an
\* answer that is a document.
IsParse(call) ==
  /\ call.op \in ParseOps
  /\ call.variant \in {Mode(exchange.self), "plain"}
  /\ call.input \notin {Unsent, TransportFailure}

\* The first parse is remembered; phase tells whether another call has been
\* made since ("between") and whether the same parse has then been made
\* again ("again").
Remember(parsed, call) ==
  IF parsed.phase = "none"
  THEN IF IsParse(call)
       THEN [phase |-> "first", op |-> call.op, input |-> call.input, out |-> call.out]
       ELSE parsed
  ELSE IF IsParse(call) /\ call.op = parsed.op /\ call.input = parsed.input
  THEN IF parsed.phase = "between" THEN [parsed EXCEPT !.phase = "again"] ELSE parsed
  ELSE IF parsed.phase = "first" THEN [parsed EXCEPT !.phase = "between"] ELSE parsed

\* The record of a call of a network operation.
CallRecord(op, variant, response) ==
  LET r == Call(exchange.self, exchange.closed, op, variant, response)
  IN [lib |-> exchange.self.lib, op |-> op, variant |-> variant,
      closed |-> exchange.closed, sent |-> r.sent,
      input |-> IF r.sent = 0 THEN Unsent ELSE response, out |-> r.out]

After(call) ==
  [exchange EXCEPT !.self = AfterOperation(@, call.op), !.parsed = Remember(@, call)]

\* login, logout, validate, service_validate, proxy_validate, proxy or
\* saml_validate is called.
Blocking ==
  \E op \in NetworkOps : \E response \in Answers(op) :
    LET call == CallRecord(op, "blocking", response)
    IN /\ sync_call' = call
       /\ async_call' = NoCall
       /\ exchange' = After(call)

\* alogin, alogout, avalidate, aservice_validate, aproxy_validate, aproxy or
\* asaml_validate is awaited.
NonBlocking ==
  \E op \in NetworkOps : \E response \in Answers(op) :
    LET call == CallRecord(op, "non-blocking", response)
    IN /\ async_call' = call
       /\ sync_call' = NoCall
       /\ exchange' = After(call)

\* parse_logout_request (a static method) is called; the call is recorded
\* with those of the client's mode.
ParseNotification ==
  \E content \in Notifications :
    LET call == [lib |-> exchange.self.lib, op |-> "parse_logout_request",
                 variant |-> "plain", closed |-> exchange.closed, sent |-> 0,
                 input |-> content,
                 out |-> Perform("parse_logout_request", exchange.self, content)]
    IN /\ exchange' = After(call)
       /\ IF exchange.self.is_async
          THEN async_call' = call /\ sync_call' = NoCall
          ELSE sync_call' = call /\ async_call' = NoCall

\* client.close()
Close ==
  /\ exchange' = [exchange EXCEPT !.closed = @ \/ close(exchange.self).kind = "return"]
  /\ UNCHANGED <<sync_call, async_call>>

\* await client.aclose()
AClose ==
  /\ exchange' = [exchange EXCEPT !.closed = @ \/ aclose(exchange.self).kind = "return"]
  /\ UNCHANGED <<sync_call, async_call>>

\* The block is entered, with the value of __enter__ bound, or the statement
\* fails with the error __enter__ raised.
Entered(kind, r) ==
  IF r.kind = "return"
  THEN [state |-> "in", kind |-> kind, bound |-> r.value]
  ELSE [state |-> "rejected", kind |-> kind, exc |-> r.exc]

\* with client: ...
Enter ==
  /\ exchange.scope.state = "none"
  /\ exchange' = [exchange EXCEPT !.scope = Entered("with", __enter__(exchange.self))]
  /\ UNCHANGED <<sync_call, async_call>>

\* async with client: ...
AEnter ==
  /\ exchange.scope.state = "none"
  /\ exchange' = [exchange EXCEPT !.scope = Entered("async with", __aenter__(exchange.self))]
  /\ UNCHANGED <<sync_call, async_call>>

\* The ways a block ends: normally, or by an exception: one of the block's
\* own, or the one an operation called in the block raised.
BlockEnds(call) ==
  {NoExc, Builtin("KeyError", <<"ticket">>)}
  \cup (IF call.lib # "none" /\ call.out.kind = "raise" THEN {call.out.exc} ELSE {})

Left(kind, raised, e) ==
  [exchange EXCEPT !.closed = @ \/ e.closed,
                   !.scope = [state |-> "left", kind |-> kind, raised |-> raised,
                              closes |-> e.closes, propagated |-> e.propagated]]

\* The block of a with statement ends: __exit__ runs.
Exit ==
  /\ exchange.scope.state = "in"
  /\ exchange.scope.kind = "with"
  /\ \E raised \in BlockEnds(sync_call) :
       exchange' = Left("with", raised, __exit__(exchange.self, raised))
  /\ UNCHANGED <<sync_call, async_call>>

\* The block of an async with statement ends: __aexit__ runs.
AExit ==
  /\ exchange.scope.state = "in"
  /\ exchange.scope.kind = "async with"
  /\ \E raised \in BlockEnds(async_call) :
       exchange' = Left("async with", raised, __aexit__(exchange.self, raised))
  /\ UNCHANGED <<sync_call, async_call>>

LifecycleNext ==
  \/ Blocking
  \/ NonBlocking
  \/ ParseNotification
  \/ Close
  \/ AClose
  \/ Enter
  \/ AEnter
  \/ Exit
  \/ AExit

LifecycleSpec == LifecycleInit /\ [][LifecycleNext]_vars

\* ---------------------------------------------------------------- properties of the lifecycle

\* The call was made through the variant of the client's own mode.
InMode(c) == c.variant = Mode(exchange.made)

C25_WrongModeRejectedBeforeSending ==
  /\ \A c \in Made :
       (c.op \in NetworkOps /\ ~InMode(c)) => (c.sent = 0 /\ c.out.kind = "raise")
  /\ exchange.scope.state = "in" =>
       exchange.scope.kind = (IF exchange.made.is_async THEN "async with" ELSE "with")

\* C26: every network operation called after the transport was closed by
\* close or aclose fails with an error, returns no result and sends no
\* request.
C26_ClosedFailsFast ==
  \A c \in Made :
    (c.op \in NetworkOps /\ c.closed) => (c.out.kind = "raise" /\ c.sent = 0)

C30_ExitClosesOnceAndPropagates ==
  /\ exchange.scope.state = "left" =>
       /\ exchange.scope.closes = 1
       /\ exchange.closed
       /\ exchange.scope.propagated = exchange.scope.raised
  /\ exchange.scope.state = "in" => exchange.scope.bound = exchange.made

\* A block that raised has been left.
C30_Witness ==
  /\ exchange.scope.state = "left"
  /\ exchange.scope.raised = Builtin("KeyError", <<"ticket">>)
  /\ exchange.scope.propagated = Builtin("KeyError", <<"ticket">>)
  /\ exchange.scope.closes = 1

\* ---------------------------------------------------------------- concurrent operations

\* The number of operations in flight on one client.
MaxTasks == 2

Tasks == 1..MaxTasks

\* The concurrency specification: the non-blocking operations of one client
\* run as tasks of one event loop.  exchange holds the client; async_call
\* holds, for every task, the call it makes: the operation, the answer the
\* server gave to its request (answer), the coroutine's local variable rq
\* that the awaited answer is bound to, and the outcome once the coroutine
\* has run to its end; no blocking call is made.
Idle == [stage |-> "idle"]

ConcurrentInit ==
  /\ exchange \in {[self |-> c, made |-> c] : c \in {CASClient_Httpx(TRUE), CASClient_AIOHttp(TRUE)}}
  /\ sync_call = NoCall
  /\ async_call = [t \in Tasks |-> Idle]

\* A transport answer kept in one place for all the calls of an operation:
\* every call of the operation that is waiting or about to resume sees the
\* latest one.
DeliverShared(calls, t, response) ==
  [u \in Tasks |->
     IF u = t
     THEN [calls[u] EXCEPT !.stage = "received", !.answer = response, !.rq = response]
     ELSE IF calls[u].stage = "received" /\ calls[u].op = calls[t].op
     THEN [calls[u] EXCEPT !.rq = response]
     ELSE calls[u]]

\* rq = await self.http.get(...): the answer to the task's request is bound
\* to the local variable of the task's own coroutine.
Deliver(calls, t, response) ==
  [calls EXCEPT ![t] = [@ EXCEPT !.stage = "received", !.answer = response, !.rq = response]]

\* A task calls an operation, which builds its request and awaits the
\* transport.
Start ==
  \E t \in Tasks : \E op \in NetworkOps :
    /\ async_call[t].stage = "idle"
    /\ async_call' = [async_call EXCEPT ![t] =
         [stage |-> "sent", op |-> op, answer |-> Unsent, rq |-> Unsent,
          out |-> [kind |-> "none"]]]
    /\ UNCHANGED <<exchange, sync_call>>

\* The transport has the answer to the request of a task.
Receive ==
  \E t \in Tasks :
    /\ async_call[t].stage = "sent"
    /\ \E response \in Answers(async_call[t].op) :
         async_call' = Deliver(async_call, t, response)
    /\ UNCHANGED <<exchange, sync_call>>

\* The event loop resumes the task: the rest of the operation runs on rq.
Resume ==
  \E t \in Tasks :
    /\ async_call[t].stage = "received"
    /\ async_call' = [async_call EXCEPT ![t] =
         [@ EXCEPT !.stage = "done",
                   !.out = Perform(async_call[t].op, exchange.self, async_call[t].rq)]]
    /\ UNCHANGED <<exchange, sync_call>>

ConcurrentNext == Start \/ Receive \/ Resume

ConcurrentSpec == ConcurrentInit /\ [][ConcurrentNext]_vars

====
